---- MODULE Spec2Model ----
(***************************************************************************)
(* Rule engine for YAML front-matter (obsidian-yaml-manipulator).          *)
(*                                                                         *)
(* The module models the front-matter values, the literal value parser,    *)
(* the condition evaluator with its regex guards, the action parser, the   *)
(* object actions (MERGE / MERGE_OVERWRITE) on values and on a heap of     *)
(* objects, the template resolver, the rule engine (executeRule) and the   *)
(* batch processor (processBatch) with its backups.                        *)
(***************************************************************************)
EXTENDS Integers, Sequences, FiniteSets, TLC

(***************************************************************************)
(* Value model.  A JavaScript value is a record [k, v]: k is the variant   *)
(* and v its payload.  Strings are sequences of one-character strings,     *)
(* arrays are sequences of values, objects are sequences of <<key, value>> *)
(* pairs in the order the keys are enumerated (object keys are atomic).    *)
(***************************************************************************)
Undefined == [k |-> "undefined", v |-> <<>>]
Null == [k |-> "null", v |-> <<>>]
Bool(b) == [k |-> "boolean", v |-> b]
Num(n) == [k |-> "number", v |-> n]
Str(s) == [k |-> "string", v |-> s]
Arr(s) == [k |-> "array", v |-> s]
Obj(s) == [k |-> "object", v |-> s]

\* A YAML timestamp (2024-01-01): yaml.load with DEFAULT_SCHEMA returns a Date
\* for it, an object that has no own keys.
Timestamp == [k |-> "date", v |-> <<>>]

\* typeof x === 'object' && x !== null && !Array.isArray(x)
IsPlainObject(x) == x.k \in {"object", "date"}

\* Object.prototype.hasOwnProperty.call(o, key), for a plain object
HasOwn(o, key) == \E i \in 1..Len(o.v) : o.v[i][1] = key

\* o[key]: the own property, undefined when there is none
GetProp(o, key) ==
    IF HasOwn(o, key)
    THEN o.v[CHOOSE i \in 1..Len(o.v) : o.v[i][1] = key][2]
    ELSE Undefined

\* The own keys of a JavaScript object are enumerated with the array indices
\* ("0", "1", ...) first, in ascending numeric order, and the other string
\* keys after them in the order they were created.
ArrayIndexKeys == <<"0", "1", "2">>
IsArrayIndex(key) == \E n \in 1..Len(ArrayIndexKeys) : ArrayIndexKeys[n] = key
ArrayIndexOf(key) == CHOOSE n \in 1..Len(ArrayIndexKeys) : ArrayIndexKeys[n] = key

\* the properties after a new key was created: an array index goes behind the
\* smaller indices, any other key to the end
CreateProp(props, key, val) ==
    IF ~IsArrayIndex(key) THEN Append(props, <<key, val>>)
    ELSE LET smaller == Cardinality({n \in 1..Len(props) :
                                       /\ IsArrayIndex(props[n][1])
                                       /\ ArrayIndexOf(props[n][1]) < ArrayIndexOf(key)})
         IN SubSeq(props, 1, smaller) \o << <<key, val>> >>
            \o SubSeq(props, smaller + 1, Len(props))

\* o[key] = val: an existing key keeps its position, a new key is created
SetProp(o, key, val) ==
    [k |-> IF o.k = "date" THEN "date" ELSE "object",
     v |-> IF HasOwn(o, key)
           THEN [i \in 1..Len(o.v) |->
                   IF o.v[i][1] = key THEN <<key, val>> ELSE o.v[i]]
           ELSE CreateProp(o.v, key, val)]

\* delete o[key]
DeleteProp(o, key) == Obj(SelectSeq(o.v, LAMBDA e : e[1] # key))

(***************************************************************************)
(* Path resolver (parser/pathResolver).  A path is the sequence of its     *)
(* property segments.                                                      *)
(***************************************************************************)
RECURSIVE resolvePath(_, _)
resolvePath(data, path) ==
    IF path = <<>> THEN data
    ELSE IF ~IsPlainObject(data) THEN Undefined
    ELSE IF ~HasOwn(data, Head(path)) THEN Undefined
    ELSE resolvePath(GetProp(data, Head(path)), Tail(path))

pathExists(data, path) == resolvePath(data, path) # Undefined

\* auto-vivifying write: a missing parent becomes a new map; empty path is a no-op
RECURSIVE setPath(_, _, _)
setPath(data, path, value) ==
    IF path = <<>> THEN data
    ELSE IF Len(path) = 1 THEN SetProp(data, Head(path), value)
    ELSE LET child == GetProp(data, Head(path))
             parent == IF IsPlainObject(child) THEN child ELSE Obj(<<>>)
         IN SetProp(data, Head(path), setPath(parent, Tail(path), value))

\* deletePath: FALSE when a prefix is missing, otherwise removes the key
RECURSIVE deletePath(_, _)
deletePath(data, path) ==
    IF path = <<>> \/ ~IsPlainObject(data) \/ ~HasOwn(data, Head(path))
    THEN [ok |-> FALSE, data |-> data]
    ELSE IF Len(path) = 1
    THEN [ok |-> TRUE, data |-> DeleteProp(data, Head(path))]
    ELSE LET r == deletePath(GetProp(data, Head(path)), Tail(path))
         IN [ok |-> r.ok,
             data |-> IF r.ok THEN SetProp(data, Head(path), r.data) ELSE data]

(***************************************************************************)
(* Object actions (actions/objectActions).                                 *)
(***************************************************************************)
\* An ActionResult; `data` is the (mutated in place) data after the call.
ActionResult(data, success, modified, changes, error, warning) ==
    [data |-> data, success |-> success, modified |-> modified,
     changes |-> changes, error |-> error, warning |-> warning]

NoText == "none"

\* source.hasOwnProperty(key) is a call of the property `hasOwnProperty` found
\* on the source: an own key of that name holds a JSON value, which is not
\* callable, and the call throws a TypeError.
HasOwnPropertyCallThrows(source) == HasOwn(source, "hasOwnProperty")

\* A variant of deepMerge that concatenates arrays instead of replacing them.
RECURSIVE deepMergeConcat(_, _, _)
deepMergeConcat(target, source, i) ==
    IF i > Len(source.v) THEN [val |-> target, threw |-> FALSE]
    ELSE IF HasOwnPropertyCallThrows(source) THEN [val |-> target, threw |-> TRUE]
    ELSE LET key == source.v[i][1]
             sourceValue == source.v[i][2]
             targetValue == GetProp(target, key)
         IN IF IsPlainObject(sourceValue) /\ IsPlainObject(targetValue)
            THEN LET r == deepMergeConcat(targetValue, sourceValue, 1)
                 IN IF r.threw
                    THEN [val |-> SetProp(target, key, r.val), threw |-> TRUE]
                    ELSE deepMergeConcat(SetProp(target, key, r.val), source, i + 1)
            ELSE IF sourceValue.k = "array" /\ targetValue.k = "array"
            THEN deepMergeConcat(
                     SetProp(target, key, Arr(targetValue.v \o sourceValue.v)),
                     source, i + 1)
            ELSE deepMergeConcat(SetProp(target, key, sourceValue), source, i + 1)

\* deepMerge(target, source), from the i-th key of source on: the merged target
\* and whether a TypeError was thrown on the way (the target then keeps the
\* writes made before the throw).
RECURSIVE deepMerge(_, _, _)
deepMerge(target, source, i) ==
    IF i > Len(source.v) THEN [val |-> target, threw |-> FALSE]
    ELSE IF HasOwnPropertyCallThrows(source) THEN [val |-> target, threw |-> TRUE]
    ELSE LET key == source.v[i][1]
             sourceValue == source.v[i][2]
             targetValue == GetProp(target, key)
         IN IF IsPlainObject(sourceValue) /\ IsPlainObject(targetValue)
            THEN LET r == deepMerge(targetValue, sourceValue, 1)
                 IN IF r.threw
                    THEN [val |-> SetProp(target, key, r.val), threw |-> TRUE]
                    ELSE deepMerge(SetProp(target, key, r.val), source, i + 1)
            ELSE deepMerge(SetProp(target, key, sourceValue), source, i + 1)

\* Object.assign(target, source): every own key of source, in source order
RECURSIVE ObjectAssign(_, _, _)
ObjectAssign(target, source, i) ==
    IF i > Len(source.v) THEN target
    ELSE ObjectAssign(SetProp(target, source.v[i][1], source.v[i][2]), source, i + 1)

executeMerge(data, path, value) ==
    LET existing == resolvePath(data, path)
    IN IF existing = Undefined
       THEN ActionResult(setPath(data, path, value), TRUE, TRUE,
                         <<"MERGE created">>, NoText, NoText)
       ELSE IF ~IsPlainObject(existing)
       THEN ActionResult(data, FALSE, FALSE, <<>>, "not an object", NoText)
       ELSE LET r == deepMerge(existing, value, 1)
            IN IF r.threw
               THEN ActionResult(setPath(data, path, r.val), FALSE, FALSE, <<>>,
                                 "TypeError", NoText)
               ELSE ActionResult(setPath(data, path, r.val), TRUE, TRUE,
                                 <<"MERGE merged">>, NoText, NoText)

executeMergeOverwrite(data, path, value) ==
    LET existing == resolvePath(data, path)
    IN IF existing = Undefined
       THEN ActionResult(setPath(data, path, value), TRUE, TRUE,
                         <<"MERGE_OVERWRITE created">>, NoText, NoText)
       ELSE IF ~IsPlainObject(existing)
       THEN ActionResult(data, FALSE, FALSE, <<>>, "not an object", NoText)
       ELSE ActionResult(setPath(data, path, ObjectAssign(existing, value, 1)),
                         TRUE, TRUE, <<"MERGE_OVERWRITE merged">>, NoText, NoText)

(***************************************************************************)
(* The object actions once more, on a heap.  Maps and sequences are        *)
(* objects with an identity: the heap is the sequence of the objects       *)
(* allocated so far, an address is an index into it, and a slot of an      *)
(* object holds a scalar or a reference.  The actions mutate the heap as   *)
(* the code mutates its arguments.                                         *)
(***************************************************************************)
Ref(a) == [k |-> "ref", v |-> a]
IsRef(slot) == slot.k = "ref"

\* typeof x === 'object' && x !== null && !Array.isArray(x)
IsObjectRef(heap, slot) == IsRef(slot) /\ heap[slot.v].k \in {"object", "date"}

\* the parsers (YAML for the front matter, JSON.parse for a literal) build a
\* fresh object for every map, sequence and timestamp of the document
RECURSIVE Allocate(_, _), AllocateAll(_, _, _, _)
Allocate(heap, value) ==
    IF value.k \notin {"object", "array", "date"} THEN [heap |-> heap, slot |-> value]
    ELSE LET kids == AllocateAll(heap, value, 1, <<>>)
         IN [heap |-> Append(kids.heap, [k |-> value.k, v |-> kids.v]),
             slot |-> Ref(Len(kids.heap) + 1)]
AllocateAll(heap, value, n, acc) ==
    IF n > Len(value.v) THEN [heap |-> heap, v |-> acc]
    ELSE LET item == value.v[n]
             child == Allocate(heap, IF value.k # "array" THEN item[2] ELSE item)
         IN AllocateAll(child.heap, value, n + 1,
                        Append(acc, IF value.k # "array"
                                    THEN <<item[1], child.slot>>
                                    ELSE child.slot))

\* the value a slot stands for
RECURSIVE Deref(_, _)
Deref(heap, slot) ==
    IF ~IsRef(slot) THEN slot
    ELSE LET o == heap[slot.v]
         IN IF o.k # "array"
            THEN [k |-> o.k,
                  v |-> [n \in 1..Len(o.v) |-> <<o.v[n][1], Deref(heap, o.v[n][2])>>]]
            ELSE Arr([n \in 1..Len(o.v) |-> Deref(heap, o.v[n])])

HeapHasOwn(heap, a, key) == \E n \in 1..Len(heap[a].v) : heap[a].v[n][1] = key

\* heap[a][key]
HeapGet(heap, a, key) ==
    IF HeapHasOwn(heap, a, key)
    THEN heap[a].v[CHOOSE n \in 1..Len(heap[a].v) : heap[a].v[n][1] = key][2]
    ELSE Undefined

\* heap[a][key] = slot
HeapSet(heap, a, key, slot) ==
    [heap EXCEPT ![a].v =
        IF HeapHasOwn(heap, a, key)
        THEN [n \in 1..Len(@) |-> IF @[n][1] = key THEN <<key, slot>> ELSE @[n]]
        ELSE CreateProp(@, key, slot)]

RECURSIVE resolvePathInPlace(_, _, _)
resolvePathInPlace(heap, slot, path) ==
    IF path = <<>> THEN slot
    ELSE IF ~IsObjectRef(heap, slot) THEN Undefined
    ELSE IF ~HeapHasOwn(heap, slot.v, Head(path)) THEN Undefined
    ELSE resolvePathInPlace(heap, HeapGet(heap, slot.v, Head(path)), Tail(path))

\* setPath on the object at address a: a missing parent is a new object
RECURSIVE setPathInPlace(_, _, _, _)
setPathInPlace(heap, a, path, slot) ==
    IF path = <<>> THEN heap
    ELSE IF Len(path) = 1 THEN HeapSet(heap, a, Head(path), slot)
    ELSE LET child == HeapGet(heap, a, Head(path))
         IN IF IsObjectRef(heap, child)
            THEN setPathInPlace(heap, child.v, Tail(path), slot)
            ELSE LET fresh == Len(heap) + 1
                     grown == Append(heap, [k |-> "object", v |-> <<>>])
                 IN setPathInPlace(HeapSet(grown, a, Head(path), Ref(fresh)),
                                   fresh, Tail(path), slot)

\* A variant of deepMerge that stores the source object itself under the key,
\* in place of the key's value in the source.
RECURSIVE deepMergeWholeSource(_, _, _, _)
deepMergeWholeSource(heap, target, source, n) ==
    IF n > Len(heap[source].v) THEN [heap |-> heap, threw |-> FALSE]
    ELSE IF HeapHasOwn(heap, source, "hasOwnProperty") THEN [heap |-> heap, threw |-> TRUE]
    ELSE LET key == heap[source].v[n][1]
             sourceValue == heap[source].v[n][2]
             targetValue == HeapGet(heap, target, key)
         IN IF IsObjectRef(heap, sourceValue) /\ IsObjectRef(heap, targetValue)
            THEN LET r == deepMergeWholeSource(heap, targetValue.v, sourceValue.v, 1)
                 IN IF r.threw THEN r
                    ELSE deepMergeWholeSource(r.heap, target, source, n + 1)
            ELSE deepMergeWholeSource(HeapSet(heap, target, key, Ref(source)),
                                      target, source, n + 1)

\* A variant of deepMerge that never recurses: the source value replaces the
\* target value of every key.
RECURSIVE deepMergeShallow(_, _, _, _)
deepMergeShallow(heap, target, source, n) ==
    IF n > Len(heap[source].v) THEN [heap |-> heap, threw |-> FALSE]
    ELSE IF HeapHasOwn(heap, source, "hasOwnProperty") THEN [heap |-> heap, threw |-> TRUE]
    ELSE deepMergeShallow(
             HeapSet(heap, target, heap[source].v[n][1], heap[source].v[n][2]),
             target, source, n + 1)

\* deepMerge(target, source) on two objects of the heap, from the n-th key of
\* the source on
RECURSIVE deepMergeInPlace(_, _, _, _)
deepMergeInPlace(heap, target, source, n) ==
    IF n > Len(heap[source].v) THEN [heap |-> heap, threw |-> FALSE]
    ELSE IF HeapHasOwn(heap, source, "hasOwnProperty") THEN [heap |-> heap, threw |-> TRUE]
    ELSE LET key == heap[source].v[n][1]
             sourceValue == heap[source].v[n][2]
             targetValue == HeapGet(heap, target, key)
         IN IF IsObjectRef(heap, sourceValue) /\ IsObjectRef(heap, targetValue)
            THEN LET r == deepMergeInPlace(heap, targetValue.v, sourceValue.v, 1)
                 IN IF r.threw THEN r
                    ELSE deepMergeInPlace(r.heap, target, source, n + 1)
            ELSE deepMergeInPlace(HeapSet(heap, target, key, sourceValue),
                                  target, source, n + 1)

\* Object.assign(target, source) on two objects of the heap
RECURSIVE ObjectAssignInPlace(_, _, _, _)
ObjectAssignInPlace(heap, target, source, n) ==
    IF n > Len(heap[source].v) THEN heap
    ELSE ObjectAssignInPlace(
             HeapSet(heap, target, heap[source].v[n][1], heap[source].v[n][2]),
             target, source, n + 1)

\* the heap after the call, and the success flag of the ActionResult
Mutated(heap, success) == [heap |-> heap, success |-> success]

\* executeMerge(data, path, value): data is the address of the front matter,
\* value the reference to the parsed literal
executeMergeInPlace(heap, data, path, value) ==
    LET existing == resolvePathInPlace(heap, Ref(data), path)
    IN IF existing.k = "undefined"
       THEN Mutated(setPathInPlace(heap, data, path, value), TRUE)
       ELSE IF ~IsObjectRef(heap, existing) THEN Mutated(heap, FALSE)
       ELSE LET r == deepMergeInPlace(heap, existing.v, value.v, 1)
            IN Mutated(r.heap, ~r.threw)

executeMergeOverwriteInPlace(heap, data, path, value) ==
    LET existing == resolvePathInPlace(heap, Ref(data), path)
    IN IF existing.k = "undefined"
       THEN Mutated(setPathInPlace(heap, data, path, value), TRUE)
       ELSE IF ~IsObjectRef(heap, existing) THEN Mutated(heap, FALSE)
       ELSE Mutated(ObjectAssignInPlace(heap, existing.v, value.v, 1), TRUE)

\* the slots of an object, and the objects reachable from one
Slots(heap, a) ==
    IF heap[a].k # "array" THEN [n \in 1..Len(heap[a].v) |-> heap[a].v[n][2]]
    ELSE heap[a].v
Children(heap, a) ==
    {Slots(heap, a)[n].v : n \in {m \in 1..Len(heap[a].v) : IsRef(Slots(heap, a)[m])}}
RECURSIVE ReachableFrom(_, _, _)
ReachableFrom(heap, objects, n) ==
    IF n = 0 THEN objects
    ELSE ReachableFrom(heap,
                       objects \cup UNION {Children(heap, a) : a \in objects}, n - 1)
Reachable(heap, root) == ReachableFrom(heap, {root}, Len(heap))

\* the slots of reachable objects that hold a reference to a
ReferencesTo(heap, root, a) ==
    UNION {{<<parent, n>> : n \in {m \in 1..Len(heap[parent].v) :
                                      /\ IsRef(Slots(heap, parent)[m])
                                      /\ Slots(heap, parent)[m].v = a}} :
           parent \in Reachable(heap, root)}

\* every object reachable from root is reached by one path only
NoAliasing(heap, root) ==
    /\ ReferencesTo(heap, root, root) = {}
    /\ \A a \in Reachable(heap, root) : Cardinality(ReferencesTo(heap, root, a)) <= 1

(***************************************************************************)
(* Literal value parser (parser/valueParser).  A text is a sequence of     *)
(* characters; the punctuation, the digits and the quoted keys of a JSON   *)
(* text are one element each.                                              *)
(***************************************************************************)
DANGEROUS_OBJECT_KEYS == {"__proto__", "constructor", "prototype"}

\* hasDangerousKeys(obj): an own dangerous key at this level, or in any nested
\* object or array (Object.values of an array are its elements)
RECURSIVE hasDangerousKeys(_)
hasDangerousKeys(obj) ==
    IF obj.k = "object"
    THEN \/ \E key \in DANGEROUS_OBJECT_KEYS : HasOwn(obj, key)
         \/ \E i \in 1..Len(obj.v) :
               obj.v[i][2].k \in {"object", "array"} /\ hasDangerousKeys(obj.v[i][2])
    ELSE IF obj.k = "array"
    THEN \E i \in 1..Len(obj.v) :
            obj.v[i].k \in {"object", "array"} /\ hasDangerousKeys(obj.v[i])
    ELSE FALSE

Digits == <<"0", "1", "2", "3", "4", "5", "6", "7", "8", "9">>
IsDigit(c) == \E i \in 1..Len(Digits) : Digits[i] = c
DigitValue(c) == (CHOOSE i \in 1..Len(Digits) : Digits[i] = c) - 1

\* the text JSON.stringify writes for a value (without white space)
RECURSIVE JsonText(_)
RECURSIVE JsonItems(_, _)
JsonItems(items, i) ==
    IF i > Len(items) THEN <<>>
    ELSE (IF i > 1 THEN <<",">> ELSE <<>>) \o JsonText(items[i]) \o JsonItems(items, i + 1)
RECURSIVE JsonMembers(_, _)
JsonMembers(members, i) ==
    IF i > Len(members) THEN <<>>
    ELSE (IF i > 1 THEN <<",">> ELSE <<>>)
         \o <<"\"", members[i][1], "\"", ":">> \o JsonText(members[i][2])
         \o JsonMembers(members, i + 1)
JsonText(x) ==
    CASE x.k = "null" -> <<"n", "u", "l", "l">>
      [] x.k = "boolean" -> IF x.v THEN <<"t", "r", "u", "e">>
                            ELSE <<"f", "a", "l", "s", "e">>
      [] x.k = "number" -> <<Digits[x.v + 1]>>
      [] x.k = "string" -> <<"\"">> \o x.v \o <<"\"">>
      [] x.k = "array" -> <<"[">> \o JsonItems(x.v, 1) \o <<"]">>
      [] x.k = "object" -> <<"{">> \o JsonMembers(x.v, 1) \o <<"}">>

\* The JSON documents the model writes literals from: nesting up to
\* MaxLitDepth, keys drawn from LitKeys.
MaxLitDepth == 2
LitKeys == {"a"} \cup DANGEROUS_OBJECT_KEYS
LitLeaves == {Num(1)}
RECURSIVE LitDocs(_)
LitDocs(d) ==
    IF d = 0 THEN LitLeaves
    ELSE LET inner == LitDocs(d - 1)
         IN inner
            \cup {Obj(<< <<key, x>> >>) : key \in LitKeys, x \in inner}
            \cup {Arr(<<x>>) : x \in inner}
            \cup {Obj(<< <<"a", Num(1)>>, <<"b", x>> >>) : x \in inner}
JsonDocs == LitDocs(MaxLitDepth)

\* JSON.parse(text): the document the text is written from; a text that is
\* the text of no document is a SyntaxError
JsonParses(text) == \E doc \in JsonDocs : JsonText(doc) = text
JsonParse(text) == CHOOSE doc \in JsonDocs : JsonText(doc) = text

\* String.prototype.trim
RECURSIVE TrimStart(_)
TrimStart(s) == IF s # <<>> /\ Head(s) = " " THEN TrimStart(Tail(s)) ELSE s
RECURSIVE TrimEnd(_)
TrimEnd(s) ==
    IF s # <<>> /\ s[Len(s)] = " " THEN TrimEnd(SubSeq(s, 1, Len(s) - 1)) ELSE s
Trim(s) == TrimEnd(TrimStart(s))

startsWith(s, c) == s # <<>> /\ Head(s) = c
endsWith(s, c) == s # <<>> /\ s[Len(s)] = c

\* String.prototype.toLowerCase on the letters of the keywords
UpperLetters == <<"N", "U", "L", "T", "R", "E", "F", "A", "S">>
LowerLetters == <<"n", "u", "l", "t", "r", "e", "f", "a", "s">>
LowerChar(c) ==
    IF \E i \in 1..Len(UpperLetters) : UpperLetters[i] = c
    THEN LowerLetters[CHOOSE i \in 1..Len(UpperLetters) : UpperLetters[i] = c]
    ELSE c
toLowerCase(s) == [i \in 1..Len(s) |-> LowerChar(s[i])]

\* str.replace(/<a><b>/g, r): every occurrence of the two characters a b,
\* left to right, replaced by the character r
RECURSIVE ReplacePair(_, _, _, _)
ReplacePair(s, a, b, r) ==
    IF Len(s) < 2 THEN s
    ELSE IF s[1] = a /\ s[2] = b
    THEN <<r>> \o ReplacePair(SubSeq(s, 3, Len(s)), a, b, r)
    ELSE <<s[1]>> \o ReplacePair(Tail(s), a, b, r)

\* processEscapeSequences: six replace passes, in this order
processEscapeSequences(str) ==
    LET s1 == ReplacePair(str, "\\", "\"", "\"")
        s2 == ReplacePair(s1, "\\", "'", "'")
        s3 == ReplacePair(s2, "\\", "\\", "\\")
        s4 == ReplacePair(s3, "\\", "n", "\n")
        s5 == ReplacePair(s4, "\\", "t", "\t")
    IN ReplacePair(s5, "\\", "r", "\r")

parseString(input) ==
    IF Len(input) < 2 THEN input
    ELSE LET trimmed == Trim(input)
         IN IF startsWith(trimmed, "\"") /\ endsWith(trimmed, "\"")
            THEN processEscapeSequences(SubSeq(trimmed, 2, Len(trimmed) - 1))
            ELSE IF startsWith(trimmed, "'") /\ endsWith(trimmed, "'")
            THEN processEscapeSequences(SubSeq(trimmed, 2, Len(trimmed) - 1))
            ELSE trimmed

\* /^-?\d+(\.\d+)?$/ on a text without a fraction part: an optional minus
\* sign and one or more digits
RECURSIVE DigitsValue(_, _)
DigitsValue(s, acc) ==
    IF s = <<>> THEN acc ELSE DigitsValue(Tail(s), acc * 10 + DigitValue(Head(s)))
AllDigits(s) == s # <<>> /\ \A i \in 1..Len(s) : IsDigit(s[i])
LooksLikeNumber(s) ==
    IF startsWith(s, "-") THEN AllDigits(Tail(s)) ELSE AllDigits(s)
\* parseNumber: [ok, val]; ok = FALSE stands for null
parseNumber(input) ==
    LET trimmed == Trim(input)
    IN IF ~LooksLikeNumber(trimmed) THEN [ok |-> FALSE, val |-> 0]
       ELSE IF startsWith(trimmed, "-")
       THEN [ok |-> TRUE, val |-> 0 - DigitsValue(Tail(trimmed), 0)]
       ELSE [ok |-> TRUE, val |-> DigitsValue(trimmed, 0)]

\* parseBoolean: [ok, val]; ok = FALSE stands for null
parseBoolean(input) ==
    LET trimmed == toLowerCase(Trim(input))
    IN IF trimmed = <<"t", "r", "u", "e">> THEN [ok |-> TRUE, val |-> TRUE]
       ELSE IF trimmed = <<"f", "a", "l", "s", "e">> THEN [ok |-> TRUE, val |-> FALSE]
       ELSE [ok |-> FALSE, val |-> FALSE]

\* The outcome of a parser call: a returned value, or a thrown error.
Returned(value) == [threw |-> FALSE, error |-> NoText, value |-> value]
Thrown(error) == [threw |-> TRUE, error |-> error, value |-> Undefined]

parseArray(input) ==
    IF ~JsonParses(input) THEN Thrown("Failed to parse array")
    ELSE LET parsed == JsonParse(input)
         IN IF parsed.k # "array" THEN Thrown("Failed to parse array")
            ELSE IF hasDangerousKeys(parsed) THEN Thrown("unsafe properties")
            ELSE Returned(parsed)

parseObject(input) ==
    IF ~JsonParses(input) THEN Thrown("Failed to parse object")
    ELSE LET parsed == JsonParse(input)
         IN IF parsed.k # "object" THEN Thrown("Failed to parse object")
            ELSE IF hasDangerousKeys(parsed) THEN Thrown("unsafe properties")
            ELSE Returned(parsed)

\* parseValue: auto-detects the type; an error of parseArray or parseObject is
\* caught and the text is then treated as a string
parseValue(input) ==
    IF Trim(input) = <<>> THEN Returned(Str(<<>>))
    ELSE LET trimmed == Trim(input)
         IN IF trimmed = <<"n", "u", "l", "l">> \/ trimmed = <<"N", "U", "L", "L">>
            THEN Returned(Null)
            ELSE IF parseBoolean(trimmed).ok THEN Returned(Bool(parseBoolean(trimmed).val))
            ELSE IF parseNumber(trimmed).ok THEN Returned(Num(parseNumber(trimmed).val))
            ELSE IF startsWith(trimmed, "[") /\ endsWith(trimmed, "]")
                    /\ ~parseArray(trimmed).threw
            THEN parseArray(trimmed)
            ELSE IF startsWith(trimmed, "{") /\ endsWith(trimmed, "}")
                    /\ ~parseObject(trimmed).threw
            THEN parseObject(trimmed)
            ELSE IF \/ startsWith(trimmed, "\"") /\ endsWith(trimmed, "\"")
                    \/ startsWith(trimmed, "'") /\ endsWith(trimmed, "'")
            THEN Returned(Str(parseString(trimmed)))
            ELSE Returned(Str(trimmed))

(***************************************************************************)
(* Basic and array actions (actions/basicActions, actions/arrayActions).   *)
(***************************************************************************)
executeSet(data, path, value) ==
    LET after == setPath(data, path, value)
    IN ActionResult(after, TRUE, after # data,
                    IF after # data THEN <<"SET">> ELSE <<>>, NoText, NoText)

executeAdd(data, path, value) ==
    IF pathExists(data, path)
    THEN ActionResult(data, TRUE, FALSE, <<>>, NoText, "field already exists")
    ELSE ActionResult(setPath(data, path, value), TRUE, TRUE, <<"ADD">>, NoText, NoText)

executeDelete(data, path) ==
    LET r == deletePath(data, path)
    IN IF r.ok THEN ActionResult(r.data, TRUE, TRUE, <<"DELETE">>, NoText, NoText)
       ELSE ActionResult(data, TRUE, FALSE, <<>>, NoText, NoText)

\* the new key takes the old key's position in the parent map
RenameKey(o, oldKey, newKey) ==
    LET kept == SelectSeq(o.v, LAMBDA e : e[1] # newKey \/ oldKey = newKey)
    IN Obj([i \in 1..Len(kept) |->
              IF kept[i][1] = oldKey THEN <<newKey, kept[i][2]>> ELSE kept[i]])

executeRename(data, oldPath, newPath) ==
    IF ~pathExists(data, oldPath)
    THEN ActionResult(data, TRUE, FALSE, <<>>, NoText, "field not found")
    ELSE LET n == Len(oldPath)
             sameParent == Len(newPath) = n
                           /\ SubSeq(oldPath, 1, n - 1) = SubSeq(newPath, 1, n - 1)
             parent == resolvePath(data, SubSeq(oldPath, 1, n - 1))
             after == IF sameParent
                      THEN IF n = 1 THEN RenameKey(data, oldPath[n], newPath[n])
                           ELSE setPath(data, SubSeq(oldPath, 1, n - 1),
                                        RenameKey(parent, oldPath[n], newPath[n]))
                      ELSE setPath(deletePath(data, oldPath).data, newPath,
                                   resolvePath(data, oldPath))
         IN ActionResult(after, TRUE, after # data,
                         IF after # data THEN <<"RENAME">> ELSE <<>>, NoText,
                         IF pathExists(data, newPath) /\ newPath # oldPath
                         THEN "target overwritten" ELSE NoText)

\* DEDUPLICATE keeps the first occurrence of each element
RECURSIVE Dedup(_, _)
Dedup(items, seen) ==
    IF items = <<>> THEN seen
    ELSE IF \E i \in 1..Len(seen) : seen[i] = Head(items)
    THEN Dedup(Tail(items), seen)
    ELSE Dedup(Tail(items), Append(seen, Head(items)))

executeDeduplicate(data, path) ==
    LET existing == resolvePath(data, path)
    IN IF existing = Undefined
       THEN ActionResult(data, TRUE, FALSE, <<>>, NoText, NoText)
       ELSE IF existing.k # "array"
       THEN ActionResult(data, FALSE, FALSE, <<>>, "not an array", NoText)
       ELSE LET after == setPath(data, path, Arr(Dedup(existing.v, <<>>)))
            IN ActionResult(after, TRUE, after # data,
                            IF after # data THEN <<"DEDUPLICATE">> ELSE <<>>,
                            NoText, NoText)

\* Sort order: Null < Bool < number < String; numbers by value, strings by
\* their characters (CharOrder lists the characters in ascending order).
CharOrder == <<"a", "b", "d", "s", "x">>
CharRank(c) ==
    IF \E i \in 1..Len(CharOrder) : CharOrder[i] = c
    THEN CHOOSE i \in 1..Len(CharOrder) : CharOrder[i] = c
    ELSE Len(CharOrder) + 1
TypeRank(x) ==
    CASE x.k = "null" -> 0
      [] x.k = "undefined" -> 0
      [] x.k = "boolean" -> 1
      [] x.k = "number" -> 2
      [] x.k = "string" -> 3
      [] OTHER -> 4
RECURSIVE StrLess(_, _)
StrLess(a, b) ==
    IF b = <<>> THEN FALSE
    ELSE IF a = <<>> THEN TRUE
    ELSE IF Head(a) = Head(b) THEN StrLess(Tail(a), Tail(b))
    ELSE CharRank(Head(a)) < CharRank(Head(b))
ValueLess(a, b) ==
    IF TypeRank(a) # TypeRank(b) THEN TypeRank(a) < TypeRank(b)
    ELSE CASE a.k = "number" /\ b.k = "number" -> a.v < b.v
           [] a.k = "string" /\ b.k = "string" -> StrLess(a.v, b.v)
           [] a.k = "boolean" /\ b.k = "boolean" -> ~a.v /\ b.v
           [] OTHER -> FALSE

\* the sort key of an element: the element, or its field for SORT_BY
SortKey(x, field) ==
    IF field = NoText THEN x
    ELSE IF IsPlainObject(x) THEN GetProp(x, field) ELSE Undefined
Before(a, b, field, order) ==
    IF order = "DESC" THEN ValueLess(SortKey(b, field), SortKey(a, field))
    ELSE ValueLess(SortKey(a, field), SortKey(b, field))

\* stable insertion sort
RECURSIVE InsertSorted(_, _, _, _)
InsertSorted(sorted, x, field, order) ==
    IF sorted = <<>> THEN <<x>>
    ELSE IF Before(x, Head(sorted), field, order) THEN <<x>> \o sorted
    ELSE <<Head(sorted)>> \o InsertSorted(Tail(sorted), x, field, order)
RECURSIVE StableSort(_, _, _, _)
StableSort(items, sorted, field, order) ==
    IF items = <<>> THEN sorted
    ELSE StableSort(Tail(items), InsertSorted(sorted, Head(items), field, order),
                    field, order)

executeSort(data, path, order) ==
    LET existing == resolvePath(data, path)
    IN IF existing = Undefined
       THEN ActionResult(data, TRUE, FALSE, <<>>, NoText, NoText)
       ELSE IF existing.k # "array"
       THEN ActionResult(data, FALSE, FALSE, <<>>, "not an array", NoText)
       ELSE LET after == setPath(data, path,
                                 Arr(StableSort(existing.v, <<>>, NoText, order)))
            IN ActionResult(after, TRUE, after # data,
                            IF after # data THEN <<"SORT">> ELSE <<>>, NoText, NoText)

executeSortBy(data, path, field, order) ==
    LET existing == resolvePath(data, path)
    IN IF existing = Undefined
       THEN ActionResult(data, TRUE, FALSE, <<>>, NoText, NoText)
       ELSE IF existing.k # "array"
       THEN ActionResult(data, FALSE, FALSE, <<>>, "not an array", NoText)
       ELSE IF \E i \in 1..Len(existing.v) : ~IsPlainObject(existing.v[i])
       THEN ActionResult(data, FALSE, FALSE, <<>>, "not an object", NoText)
       ELSE LET after == setPath(data, path,
                                 Arr(StableSort(existing.v, <<>>, field, order)))
            IN ActionResult(after, TRUE, after # data,
                            IF after # data THEN <<"SORT_BY">> ELSE <<>>, NoText, NoText)

(***************************************************************************)
(* Action AST and executeAction (core/ruleEngine).                         *)
(***************************************************************************)
ActionAST(op, path, value, newPath, field, order) ==
    [op |-> op, path |-> path, value |-> value, newPath |-> newPath,
     field |-> field, order |-> order]

executeAction(ast, data) ==
    CASE ast.op = "SET" -> executeSet(data, ast.path, ast.value)
      [] ast.op = "ADD" -> executeAdd(data, ast.path, ast.value)
      [] ast.op = "DELETE" -> executeDelete(data, ast.path)
      [] ast.op = "RENAME" -> executeRename(data, ast.path, ast.newPath)
      [] ast.op = "DEDUPLICATE" -> executeDeduplicate(data, ast.path)
      [] ast.op = "SORT" -> executeSort(data, ast.path, ast.order)
      [] ast.op = "SORT_BY" -> executeSortBy(data, ast.path, ast.field, ast.order)
      [] ast.op = "MERGE" -> executeMerge(data, ast.path, ast.value)
      [] ast.op = "MERGE_OVERWRITE" -> executeMergeOverwrite(data, ast.path, ast.value)
      [] OTHER -> ActionResult(data, FALSE, FALSE, <<>>, "Unknown operation", NoText)

(***************************************************************************)
(* Condition evaluator (evaluator/conditionEvaluator).                     *)
(***************************************************************************)
MAX_REGEX_LENGTH == 200

\* String(value)
RECURSIVE ToStr(_)
RECURSIVE JoinComma(_, _)
JoinComma(items, i) ==
    IF i > Len(items) THEN <<>>
    ELSE (IF i > 1 THEN <<",">> ELSE <<>>)
         \o (IF items[i].k \in {"null", "undefined"} THEN <<>> ELSE ToStr(items[i]))
         \o JoinComma(items, i + 1)
ToStr(x) ==
    CASE x.k = "string" -> x.v
      [] x.k = "number" -> IF x.v < 0 THEN <<"-", Digits[(0 - x.v) + 1]>>
                           ELSE <<Digits[x.v + 1]>>
      [] x.k = "boolean" -> IF x.v THEN <<"t", "r", "u", "e">>
                            ELSE <<"f", "a", "l", "s", "e">>
      [] x.k = "null" -> <<"n", "u", "l", "l">>
      [] x.k = "undefined" -> <<"u", "n", "d", "e", "f", "i", "n", "e", "d">>
      [] x.k = "array" -> JoinComma(x.v, 1)
      [] x.k = "object" -> <<"[", "o", "b", "j", "e", "c", "t", " ", "O", "b", "j",
                             "e", "c", "t", "]">>

\* ToNumber of a string: [nan, val]
StringToNumber(s) ==
    LET t == Trim(s)
    IN IF t = <<>> THEN [nan |-> FALSE, val |-> 0]
       ELSE IF parseNumber(t).ok THEN [nan |-> FALSE, val |-> parseNumber(t).val]
       ELSE [nan |-> TRUE, val |-> 0]

\* leftValue == rightValue (abstract equality); the two sides never are the
\* same object: the left comes from the data, the right from the condition
RECURSIVE LooseEquals(_, _)
LooseEquals(a, b) ==
    CASE a.k \in {"null", "undefined"} -> b.k \in {"null", "undefined"}
      [] b.k \in {"null", "undefined"} -> FALSE
      [] a.k = "boolean" -> LooseEquals(Num(IF a.v THEN 1 ELSE 0), b)
      [] b.k = "boolean" -> LooseEquals(a, Num(IF b.v THEN 1 ELSE 0))
      [] a.k \in {"array", "object"} ->
            b.k \in {"number", "string"} /\ LooseEquals(Str(ToStr(a)), b)
      [] b.k \in {"array", "object"} ->
            a.k \in {"number", "string"} /\ LooseEquals(a, Str(ToStr(b)))
      [] a.k = "number" /\ b.k = "string" ->
            ~StringToNumber(b.v).nan /\ StringToNumber(b.v).val = a.v
      [] a.k = "string" /\ b.k = "number" ->
            ~StringToNumber(a.v).nan /\ StringToNumber(a.v).val = b.v
      [] OTHER -> a = b

\* The outcome of an evaluation: a boolean or a thrown error; compiled tells
\* whether a RegExp was constructed on the way.
EvalValue(b, compiled) ==
    [threw |-> FALSE, error |-> NoText, value |-> b, compiled |-> compiled]
EvalThrown(error, compiled) ==
    [threw |-> TRUE, error |-> error, value |-> FALSE, compiled |-> compiled]

RegexFlags == {"g", "i", "m", "s", "u", "v", "y"}

\* pattern.match(/^\/(.+?)\/([gimsuvy]*)$/): the positions j of a closing
\* slash with one character or more before it and only flags after it; the
\* lazy group stops at the first of them.  `.` matches no line terminator.
ClosingSlashes(pattern) ==
    {j \in 3..Len(pattern) :
        /\ pattern[j] = "/"
        /\ \A n \in 2..(j - 1) : pattern[n] \notin {"\n", "\r"}
        /\ \A n \in (j + 1)..Len(pattern) : pattern[n] \in RegexFlags}
IsRegexLiteral(pattern) == startsWith(pattern, "/") /\ ClosingSlashes(pattern) # {}
FirstClosingSlash(pattern) ==
    CHOOSE j \in ClosingSlashes(pattern) : \A n \in ClosingSlashes(pattern) : j <= n
RegexBody(pattern) == SubSeq(pattern, 2, FirstClosingSlash(pattern) - 1)
RegexFlagsOf(pattern) == SubSeq(pattern, FirstClosingSlash(pattern) + 1, Len(pattern))

\* DANGEROUS_REGEX_PATTERNS (constants), each searched anywhere in the body
HasPairAt(body, i, a, b) == i + 1 <= Len(body) /\ body[i] = a /\ body[i + 1] = b
\* /(\+\*|\*\+)/
NestedQuantifier(body) ==
    \E i \in 1..Len(body) : HasPairAt(body, i, "+", "*") \/ HasPairAt(body, i, "*", "+")
\* /\{[0-9]+,\}/
OpenEndedRepetition(body) ==
    \E i \in 1..Len(body) : \E j \in (i + 2)..Len(body) :
        /\ body[i] = "{"
        /\ \A n \in (i + 1)..(j - 1) : IsDigit(body[n])
        /\ HasPairAt(body, j, ",", "}")
\* /(\.\*){2,}/
MultipleDotStar(body) ==
    \E i \in 1..Len(body) : HasPairAt(body, i, ".", "*") /\ HasPairAt(body, i + 2, ".", "*")
\* /(\+{2,}|\*{2,})/
RepeatedQuantifier(body) ==
    \E i \in 1..Len(body) : HasPairAt(body, i, "+", "+") \/ HasPairAt(body, i, "*", "*")

\* A variant of the deny-list without the entry for repeated `.*`.
IsDangerousPatternNoDotStar(body) ==
    NestedQuantifier(body) \/ OpenEndedRepetition(body) \/ RepeatedQuantifier(body)

IsDangerousPattern(body) ==
    \/ NestedQuantifier(body)
    \/ OpenEndedRepetition(body)
    \/ MultipleDotStar(body)
    \/ RepeatedQuantifier(body)

\* new RegExp(body, flags) succeeds: a quantifier has something to repeat and
\* no flag is given twice
IsQuantifier(c) == c \in {"*", "+"}
RegExpCompiles(body, flags) ==
    /\ ~IsQuantifier(body[1])
    /\ \A i \in 1..(Len(body) - 1) : ~(IsQuantifier(body[i]) /\ IsQuantifier(body[i + 1]))
    /\ \A i, j \in 1..Len(flags) : i # j => flags[i] # flags[j]

\* regex.test(str): a backtracking match of literals and `.`, each with an
\* optional `*` or `+`, tried at every start position
AtomMatches(c, x) == c = "." \/ c = x
RECURSIVE MatchHere(_, _)
RECURSIVE MatchStar(_, _, _)
MatchStar(c, rest, str) ==
    \/ MatchHere(rest, str)
    \/ str # <<>> /\ AtomMatches(c, Head(str)) /\ MatchStar(c, rest, Tail(str))
MatchHere(pat, str) ==
    IF pat = <<>> THEN TRUE
    ELSE IF Len(pat) >= 2 /\ pat[2] = "*"
    THEN MatchStar(pat[1], SubSeq(pat, 3, Len(pat)), str)
    ELSE IF Len(pat) >= 2 /\ pat[2] = "+"
    THEN str # <<>> /\ AtomMatches(pat[1], Head(str))
         /\ MatchStar(pat[1], SubSeq(pat, 3, Len(pat)), Tail(str))
    ELSE str # <<>> /\ AtomMatches(pat[1], Head(str)) /\ MatchHere(Tail(pat), Tail(str))
RegExpTest(body, str) ==
    \E i \in 0..Len(str) : MatchHere(body, SubSeq(str, i + 1, Len(str)))

evaluateRegex(value, pattern) ==
    IF ~IsRegexLiteral(pattern) THEN EvalThrown("Invalid regex pattern", FALSE)
    ELSE LET regexPattern == RegexBody(pattern)
             flags == RegexFlagsOf(pattern)
         IN IF Len(regexPattern) > MAX_REGEX_LENGTH
            THEN EvalThrown("Regex pattern too long", FALSE)
            ELSE IF IsDangerousPattern(regexPattern)
            THEN EvalThrown("Potentially unsafe regex pattern", FALSE)
            ELSE IF ~RegExpCompiles(regexPattern, flags)
            THEN EvalThrown("Invalid regex", FALSE)
            ELSE EvalValue(RegExpTest(regexPattern, ToStr(value)), TRUE)

\* LIMITS.REGEX_TIMEOUT_MS
REGEX_TIMEOUT_MS == 500

\* evaluateRegex with the time regex.test needs as an input.  regex.test is a
\* synchronous call: the timer callback cannot run before it returns, and the
\* elapsed time is compared with the budget only after it returned, so the
\* time spent is the whole duration of the match.
evaluateRegexTimed(value, pattern, duration) ==
    LET r == evaluateRegex(value, pattern)
    IN IF ~r.compiled THEN [outcome |-> r, elapsed |-> 0]
       ELSE IF duration > REGEX_TIMEOUT_MS
       THEN [outcome |-> EvalThrown("Regex execution timeout", TRUE),
             elapsed |-> duration]
       ELSE [outcome |-> r, elapsed |-> duration]

evaluateComparison(node, data) ==
    LET leftValue == resolvePath(data, node.left)
        rightValue == node.right
        bothNumbers == leftValue.k = "number" /\ rightValue.k = "number"
    IN IF leftValue = Undefined THEN EvalValue(node.operator = "!=", FALSE)
       ELSE CASE node.operator = "=" -> EvalValue(LooseEquals(leftValue, rightValue), FALSE)
              [] node.operator = "!=" -> EvalValue(~LooseEquals(leftValue, rightValue), FALSE)
              [] node.operator = ">" ->
                    EvalValue(bothNumbers /\ leftValue.v > rightValue.v, FALSE)
              [] node.operator = "<" ->
                    EvalValue(bothNumbers /\ leftValue.v < rightValue.v, FALSE)
              [] node.operator = ">=" ->
                    EvalValue(bothNumbers /\ leftValue.v >= rightValue.v, FALSE)
              [] node.operator = "<=" ->
                    EvalValue(bothNumbers /\ leftValue.v <= rightValue.v, FALSE)
              [] node.operator = "~" -> evaluateRegex(leftValue, rightValue.v)
              [] OTHER -> EvalValue(FALSE, FALSE)

evaluateExistence(node, data) ==
    LET exists == pathExists(data, node.path)
    IN EvalValue(IF node.operator = "exists" THEN exists ELSE ~exists, FALSE)

\* A variant of evaluateTypeCheck without the early return on a missing path.
evaluateTypeCheckNoEarlyReturn(node, data) ==
    LET value == resolvePath(data, node.path)
        matches == value.k = node.typeCheck
    IN EvalValue(IF node.negated THEN ~matches ELSE matches, FALSE)

evaluateTypeCheck(node, data) ==
    LET value == resolvePath(data, node.path)
        matches == CASE node.typeCheck = "string" -> value.k = "string"
                     [] node.typeCheck = "number" -> value.k = "number"
                     [] node.typeCheck = "boolean" -> value.k = "boolean"
                     [] node.typeCheck = "array" -> value.k = "array"
                     [] node.typeCheck = "object" -> IsPlainObject(value)
                     [] node.typeCheck = "null" -> value.k = "null"
                     [] OTHER -> FALSE
    IN IF value = Undefined THEN EvalValue(FALSE, FALSE)
       ELSE EvalValue(IF node.negated THEN ~matches ELSE matches, FALSE)

evaluateEmptyCheck(node, data) ==
    LET value == resolvePath(data, node.path)
        isEmpty == IF value.k \in {"array", "string"} THEN Len(value.v) = 0
                   ELSE IsPlainObject(value) /\ Len(value.v) = 0
    IN IF value = Undefined \/ value = Null
       THEN EvalValue(node.operator # "empty", FALSE)
       ELSE EvalValue(IF node.operator = "empty" THEN isEmpty ELSE ~isEmpty, FALSE)

\* array.includes(v): SameValueZero; an object or array of the data never is
\* the literal of the condition
Includes(items, x) ==
    \E i \in 1..Len(items) : items[i].k \notin {"object", "array"} /\ items[i] = x

\* A variant of evaluateHas that answers false on a missing path or a value
\* that is no array, for `!has` as for `has`.
evaluateHasNonArrayFalse(node, data) ==
    LET array == resolvePath(data, node.path)
    IN IF array.k # "array" THEN EvalValue(FALSE, FALSE)
       ELSE EvalValue(IF node.operator = "has" THEN Includes(array.v, node.value)
                      ELSE ~Includes(array.v, node.value), FALSE)

evaluateHas(node, data) ==
    LET array == resolvePath(data, node.path)
    IN IF array.k # "array" THEN EvalValue(node.operator # "has", FALSE)
       ELSE EvalValue(IF node.operator = "has" THEN Includes(array.v, node.value)
                      ELSE ~Includes(array.v, node.value), FALSE)

RECURSIVE evaluateCondition(_, _)
\* array.some / array.every from the i-th element on: stops at the first
\* element that decides, an error thrown before that propagates
RECURSIVE EvaluateItems(_, _, _, _, _)
EvaluateItems(node, items, i, stopOn, compiled) ==
    IF i > Len(items) THEN EvalValue(~stopOn, compiled)
    ELSE LET r == evaluateCondition(node.condition, items[i])
         IN IF r.threw THEN EvalThrown(r.error, compiled \/ r.compiled)
            ELSE IF r.value = stopOn THEN EvalValue(stopOn, compiled \/ r.compiled)
            ELSE EvaluateItems(node, items, i + 1, stopOn, compiled \/ r.compiled)

\* A variant of evaluateQuantifier without the test for an empty array: ALL
\* over no elements is true.
evaluateQuantifierVacuous(node, data) ==
    LET array == resolvePath(data, node.array)
    IN IF array.k # "array" THEN EvalValue(FALSE, FALSE)
       ELSE IF node.quantifier = "ANY"
       THEN EvaluateItems(node, array.v, 1, TRUE, FALSE)
       ELSE EvaluateItems(node, array.v, 1, FALSE, FALSE)

evaluateQuantifier(node, data) ==
    LET array == resolvePath(data, node.array)
    IN IF array.k # "array" THEN EvalValue(FALSE, FALSE)
       ELSE IF Len(array.v) = 0 THEN EvalValue(FALSE, FALSE)
       ELSE IF node.quantifier = "ANY"
       THEN EvaluateItems(node, array.v, 1, TRUE, FALSE)
       ELSE EvaluateItems(node, array.v, 1, FALSE, FALSE)

\* both operands are evaluated before the operator is applied
evaluateBoolean(node, data) ==
    LET left == evaluateCondition(node.left, data)
    IN IF left.threw THEN left
       ELSE LET right == evaluateCondition(node.right, data)
            IN IF right.threw THEN EvalThrown(right.error, left.compiled \/ right.compiled)
               ELSE EvalValue(IF node.operator = "AND" THEN left.value /\ right.value
                              ELSE left.value \/ right.value,
                              left.compiled \/ right.compiled)

evaluateNot(node, data) ==
    LET r == evaluateCondition(node.operand, data)
    IN IF r.threw THEN r ELSE EvalValue(~r.value, r.compiled)

evaluateCondition(ast, data) ==
    CASE ast.type = "comparison" -> evaluateComparison(ast, data)
      [] ast.type = "existence" -> evaluateExistence(ast, data)
      [] ast.type = "type_check" -> evaluateTypeCheck(ast, data)
      [] ast.type = "empty_check" -> evaluateEmptyCheck(ast, data)
      [] ast.type = "has" -> evaluateHas(ast, data)
      [] ast.type = "boolean" -> evaluateBoolean(ast, data)
      [] ast.type = "not" -> evaluateNot(ast, data)
      [] ast.type = "quantifier" -> evaluateQuantifier(ast, data)
      [] OTHER -> EvalThrown("Unknown condition type", FALSE)

(***************************************************************************)
(* Template engine (core/templateEngine).  An action text is the sequence  *)
(* of its lexemes; a lexeme of type TEMPLATE is a quoted string that holds *)
(* one placeholder, "{{variable}}", and its value is the variable, a       *)
(* record [name, arg].                                                     *)
(***************************************************************************)
Token(type, value) == [type |-> type, value |-> value]
Variable(name, arg) == [name |-> name, arg |-> arg]

\* The clock reading c as luxon formats it: day c of January 2025, at noon.
TodayText(c) == <<"2", "0", "2", "5", "-", "0", "1", "-", "0", Digits[c + 1]>>
TimeText == <<"1", "2", ":", "0", "0", ":", "0", "0">>

\* The file of a template context.
FileBasename == <<"n", "o", "t", "e">>
FilePath == <<"d", "/", "n", "o", "t", "e", ".", "m", "d">>
FileFolder == <<"d">>
VaultName == <<"v">>

\* A variant of resolveVariable that substitutes the empty string where the
\* code throws.
resolveVariableLenient(variable, frontmatter, date) ==
    IF variable.name \in {"today", "now", "timestamp", "year", "month", "day",
                          "time", "date:", "filename", "basename", "filepath",
                          "folder", "vault"}
    THEN Returned(TodayText(date))
    ELSE Returned(<<>>)

resolveVariable(variable, frontmatter, date) ==
    CASE variable.name = "today" -> Returned(TodayText(date))
      [] variable.name = "now" -> Returned(TodayText(date) \o <<"T">> \o TimeText)
      [] variable.name = "timestamp" -> Returned(<<Digits[date + 1]>>)
      [] variable.name = "year" -> Returned(SubSeq(TodayText(date), 1, 4))
      [] variable.name = "month" -> Returned(SubSeq(TodayText(date), 6, 7))
      [] variable.name = "day" -> Returned(SubSeq(TodayText(date), 9, 10))
      [] variable.name = "time" -> Returned(TimeText)
      [] variable.name = "date:" ->
            IF variable.arg = <<"y", "y", "y", "y">>
            THEN Returned(SubSeq(TodayText(date), 1, 4))
            ELSE Returned(TodayText(date))
      [] variable.name \in {"filename", "basename"} -> Returned(FileBasename)
      [] variable.name = "filepath" -> Returned(FilePath)
      [] variable.name = "folder" -> Returned(FileFolder)
      [] variable.name = "vault" -> Returned(VaultName)
      [] variable.name = "fm:" ->
            LET value == resolvePath(frontmatter, variable.arg)
            IN IF value = Undefined THEN Thrown("Frontmatter field not found")
               ELSE IF value.k \in {"string", "number", "boolean", "null"}
               THEN Returned(ToStr(value))
               ELSE Returned(JsonText(value))
      [] OTHER -> Thrown("Unknown template variable")

\* resolveTemplates: the matches are processed from the last to the first;
\* the first error met ends the call
RECURSIVE ResolveFrom(_, _, _, _)
ResolveFrom(text, i, frontmatter, date) ==
    IF i = 0 THEN Returned(text)
    ELSE IF text[i].type # "TEMPLATE" THEN ResolveFrom(text, i - 1, frontmatter, date)
    ELSE LET r == resolveVariable(text[i].value, frontmatter, date)
         IN IF r.threw THEN r
            ELSE ResolveFrom([text EXCEPT ![i] = Token("STRING", r.value)],
                             i - 1, frontmatter, date)

resolveTemplates(input, frontmatter, date) ==
    ResolveFrom(input, Len(input), frontmatter, date)

(***************************************************************************)
(* Action parser (parser/actionParser), on the tokens of the action text.  *)
(* The last token is EOF.                                                  *)
(***************************************************************************)
current(tokens, position) == tokens[position]
advance(tokens, position) ==
    IF position < Len(tokens) THEN position + 1 ELSE position

\* a parser step: [ok, val, pos]; ok = FALSE is a thrown ActionParserError
Parsed(val, pos) == [ok |-> TRUE, val |-> val, pos |-> pos]
ParseFailed(pos) == [ok |-> FALSE, val |-> Undefined, pos |-> pos]

\* parsePath: an identifier, then .identifier as long as a dot follows
RECURSIVE PathTail(_, _, _)
PathTail(tokens, position, path) ==
    IF current(tokens, position).type = "DOT"
    THEN LET next == current(tokens, advance(tokens, position))
         IN IF next.type = "IDENTIFIER"
            THEN PathTail(tokens, advance(tokens, advance(tokens, position)),
                          Append(path, next.value))
            ELSE ParseFailed(position)
    ELSE Parsed(path, position)
parsePath(tokens, position) ==
    IF current(tokens, position).type # "IDENTIFIER" THEN ParseFailed(position)
    ELSE PathTail(tokens, advance(tokens, position),
                  <<current(tokens, position).value>>)

\* ActionParser.parseValue: the value of a literal token
parseValueToken(tokens, position) ==
    LET token == current(tokens, position)
    IN CASE token.type = "STRING" -> Parsed(Str(token.value), advance(tokens, position))
         [] token.type = "NUMBER" -> Parsed(Num(token.value), advance(tokens, position))
         [] token.type = "BOOLEAN" -> Parsed(Bool(token.value), advance(tokens, position))
         [] token.type = "NULL" -> Parsed(Null, advance(tokens, position))
         [] token.type = "OBJECT" -> Parsed(token.value, advance(tokens, position))
         [] token.type = "ARRAY" -> Parsed(token.value, advance(tokens, position))
         [] OTHER -> ParseFailed(position)

\* the outcome of parseAction: the AST, or a thrown error
ParsedAction(ast) == [threw |-> FALSE, ast |-> ast]
ActionParserError == [threw |-> TRUE, ast |-> Undefined]

\* SET path value, ADD path value
parsePathValue(op, tokens) ==
    LET path == parsePath(tokens, advance(tokens, 1))
        value == parseValueToken(tokens, path.pos)
    IN IF ~path.ok \/ ~value.ok THEN ActionParserError
       ELSE ParsedAction(ActionAST(op, path.val, value.val, <<>>, NoText, NoText))

\* DELETE path, CLEAR path, DEDUPLICATE path
parsePathOnly(op, tokens) ==
    LET path == parsePath(tokens, advance(tokens, 1))
    IN IF ~path.ok THEN ActionParserError
       ELSE ParsedAction(ActionAST(op, path.val, Undefined, <<>>, NoText, NoText))

parseRename(tokens) ==
    LET oldPath == parsePath(tokens, advance(tokens, 1))
        newPath == parsePath(tokens, oldPath.pos)
    IN IF ~oldPath.ok \/ ~newPath.ok THEN ActionParserError
       ELSE ParsedAction(ActionAST("RENAME", oldPath.val, Undefined, newPath.val,
                                   NoText, NoText))

\* the optional ASC | DESC at a position; ASC when absent
OrderAt(tokens, position) ==
    IF current(tokens, position).type = "DESC" THEN "DESC" ELSE "ASC"

parseSort(tokens) ==
    LET path == parsePath(tokens, advance(tokens, 1))
    IN IF ~path.ok THEN ActionParserError
       ELSE ParsedAction(ActionAST("SORT", path.val, Undefined, <<>>, NoText,
                                   OrderAt(tokens, path.pos)))

parseSortBy(tokens) ==
    LET path == parsePath(tokens, advance(tokens, 1))
        by == current(tokens, path.pos)
        field == current(tokens, advance(tokens, path.pos))
    IN IF ~path.ok \/ by.type # "BY" \/ field.type # "IDENTIFIER"
       THEN ActionParserError
       ELSE ParsedAction(ActionAST("SORT_BY", path.val, Undefined, <<>>, field.value,
                                   OrderAt(tokens, advance(tokens, advance(tokens, path.pos)))))

\* MERGE path object, MERGE_OVERWRITE path object
parseMerge(op, tokens) ==
    LET path == parsePath(tokens, advance(tokens, 1))
        value == parseValueToken(tokens, path.pos)
    IN IF ~path.ok \/ ~value.ok THEN ActionParserError
       ELSE IF ~IsPlainObject(value.val) THEN ActionParserError
       ELSE ParsedAction(ActionAST(op, path.val, value.val, <<>>, NoText, NoText))

(***************************************************************************)
(* The lexers (parser/actionLexer, parser/conditionLexer) on the           *)
(* characters of a text: words, numbers, quoted strings, the operators =   *)
(* and >, and the comma.  The value of a STRING token is the decoded       *)
(* content of the literal; the value of a word is its characters.          *)
(***************************************************************************)
\* the keywords of the action language that the texts use
Words ==
    << <<"MOVE_WHERE", <<"M", "O", "V", "E", "_", "W", "H", "E", "R", "E">>>>,
       <<"UPDATE_WHERE", <<"U", "P", "D", "A", "T", "E", "_", "W", "H", "E", "R", "E">>>>,
       <<"WHERE", <<"W", "H", "E", "R", "E">>>>,
       <<"TO", <<"T", "O">>>>,
       <<"AFTER", <<"A", "F", "T", "E", "R">>>>,
       <<"BEFORE", <<"B", "E", "F", "O", "R", "E">>>>,
       <<"SET", <<"S", "E", "T">>>>,
       <<"START", <<"S", "T", "A", "R", "T">>>>,
       <<"END", <<"E", "N", "D">>>> >>
ActionKeywords == {Words[n][1] : n \in 1..Len(Words)}
WordCharacters ==
    {"A", "B", "D", "E", "F", "H", "M", "N", "O", "P", "R", "S", "T", "U", "V", "W",
     "_", "c", "p", "s", "u", "x"}
IsKeyword(word, keywords) ==
    \E n \in 1..Len(Words) : Words[n][2] = word /\ Words[n][1] \in keywords
KeywordName(word) == Words[CHOOSE n \in 1..Len(Words) : Words[n][2] = word][1]

\* the character an escape sequence stands for
Unescape(c) ==
    CASE c = "n" -> "\n" [] c = "t" -> "\t" [] c = "r" -> "\r" [] OTHER -> c

\* the string literal whose opening quote stands before position n
RECURSIVE ScanString(_, _, _, _)
ScanString(text, n, quote, value) ==
    IF n > Len(text) THEN [ok |-> FALSE, value |-> value, next |-> n]
    ELSE IF text[n] = quote THEN [ok |-> TRUE, value |-> value, next |-> n + 1]
    ELSE IF text[n] = "\\"
    THEN IF n + 1 > Len(text) THEN [ok |-> FALSE, value |-> value, next |-> n]
         ELSE ScanString(text, n + 2, quote, Append(value, Unescape(text[n + 1])))
    ELSE ScanString(text, n + 1, quote, Append(value, text[n]))

\* the first position from n on that holds none of the characters
RECURSIVE RunEnd(_, _, _)
RunEnd(text, n, characters) ==
    IF n <= Len(text) /\ text[n] \in characters
    THEN RunEnd(text, n + 1, characters) ELSE n

LexFailed == [ok |-> FALSE, tokens |-> <<>>]

RECURSIVE Lex(_, _, _, _)
Lex(text, n, keywords, tokens) ==
    IF n > Len(text) THEN [ok |-> TRUE, tokens |-> Append(tokens, Token("EOF", ""))]
    ELSE LET c == text[n]
         IN CASE c = " " -> Lex(text, n + 1, keywords, tokens)
              [] c \in {"\"", "'"} ->
                    LET literal == ScanString(text, n + 1, c, <<>>)
                    IN IF ~literal.ok THEN LexFailed
                       ELSE Lex(text, literal.next, keywords,
                                Append(tokens, Token("STRING", literal.value)))
              [] c = "=" -> Lex(text, n + 1, keywords, Append(tokens, Token("EQUALS", <<"=">>)))
              [] c = ">" ->
                    Lex(text, n + 1, keywords, Append(tokens, Token("GREATER_THAN", <<">">>)))
              [] c = "," -> Lex(text, n + 1, keywords, Append(tokens, Token("COMMA", <<",">>)))
              [] IsDigit(c) \/ (c = "-" /\ n < Len(text) /\ IsDigit(text[n + 1])) ->
                    LET from == IF c = "-" THEN n + 1 ELSE n
                        to == RunEnd(text, from, {Digits[d] : d \in 1..Len(Digits)})
                        magnitude == DigitsValue(SubSeq(text, from, to - 1), 0)
                    IN Lex(text, to, keywords,
                           Append(tokens, Token("NUMBER", IF c = "-" THEN 0 - magnitude
                                                          ELSE magnitude)))
              [] c \in WordCharacters ->
                    LET to == RunEnd(text, n, WordCharacters)
                        word == SubSeq(text, n, to - 1)
                    IN Lex(text, to, keywords,
                           Append(tokens, IF IsKeyword(word, keywords)
                                          THEN Token(KeywordName(word), word)
                                          ELSE Token("IDENTIFIER", word)))
              [] OTHER -> LexFailed

\* conditionLexer.tokenize and actionLexer.tokenizeAction on a text
tokenize(text) == Lex(text, 1, {}, <<>>)
tokenizeActionText(text) == Lex(text, 1, ActionKeywords, <<>>)

\* parseCondition on a text: PATH OP LITERAL, the one form of the grammar the
\* texts use; anything else is a ConditionParserError
parseConditionString(text) ==
    LET lexed == tokenize(text)
        tokens == lexed.tokens
    IN IF /\ lexed.ok
          /\ Len(tokens) = 4
          /\ tokens[1].type = "IDENTIFIER"
          /\ tokens[2].type \in {"EQUALS", "GREATER_THAN"}
          /\ tokens[3].type \in {"STRING", "NUMBER"}
       THEN [threw |-> FALSE,
             ast |-> [type |-> "comparison", left |-> <<tokens[1].value>>,
                      operator |-> tokens[2].value,
                      right |-> IF tokens[3].type = "STRING" THEN Str(tokens[3].value)
                                ELSE Num(tokens[3].value)]]
       ELSE [threw |-> TRUE, ast |-> Undefined]

\* String(n) of an integer
RECURSIVE DigitsOf(_)
DigitsOf(n) ==
    IF n < 10 THEN <<Digits[n + 1]>> ELSE Append(DigitsOf(n \div 10), Digits[(n % 10) + 1])
NumberText(n) == IF n < 0 THEN <<"-">> \o DigitsOf(0 - n) ELSE DigitsOf(n)

\* the text reconstructConditionString writes for one token
TokenText(t) ==
    IF t.type = "STRING" THEN <<"\"">> \o t.value \o <<"\"">>
    ELSE IF t.type = "EQUALS" THEN <<"=">>
    ELSE IF t.type = "GREATER_THAN" THEN <<">">>
    ELSE IF t.type = "NUMBER" THEN NumberText(t.value)
    ELSE t.value

\* tokens.map(...).join(' ')
RECURSIVE reconstructConditionString(_)
reconstructConditionString(tokens) ==
    IF tokens = <<>> THEN <<>>
    ELSE IF Len(tokens) = 1 THEN TokenText(tokens[1])
    ELSE TokenText(tokens[1]) \o <<" ">> \o reconstructConditionString(Tail(tokens))

\* the first position from `position` on whose token has one of the types
RECURSIVE CollectUntil(_, _, _)
CollectUntil(tokens, position, stops) ==
    IF position >= Len(tokens) \/ tokens[position].type \in stops THEN position
    ELSE CollectUntil(tokens, position + 1, stops)

\* the target of MOVE_WHERE is 'START', 'END' or {position, reference}; the
\* two words are written as a position without a reference
MoveWhereAction(path, condition, position, reference) ==
    [op |-> "MOVE_WHERE", path |-> path, condition |-> condition,
     target |-> [position |-> position, reference |-> reference]]

\* A variant of parseMoveWhere that sends a negative index to END and every
\* other index to START.
parseMoveWhereSigned(tokens) ==
    LET path == parsePath(tokens, advance(tokens, 1))
        to == CollectUntil(tokens, advance(tokens, path.pos), {"TO"})
        index == current(tokens, advance(tokens, to))
        condition ==
            parseConditionString(reconstructConditionString(
                SubSeq(tokens, advance(tokens, path.pos), to - 1)))
    IN IF ~path.ok \/ condition.threw \/ index.type # "NUMBER" THEN ActionParserError
       ELSE ParsedAction(MoveWhereAction(path.val, condition.ast,
                                         IF index.value < 0 THEN "END" ELSE "START",
                                         Undefined))

\* MOVE_WHERE path WHERE condition TO position
\* MOVE_WHERE path WHERE condition AFTER/BEFORE condition
parseMoveWhere(tokens) ==
    LET path == parsePath(tokens, advance(tokens, 1))
    IN IF ~path.ok \/ current(tokens, path.pos).type # "WHERE" THEN ActionParserError
       ELSE LET from == advance(tokens, path.pos)
                to == CollectUntil(tokens, from, {"TO", "AFTER", "BEFORE", "EOF"})
                conditionStr == reconstructConditionString(SubSeq(tokens, from, to - 1))
                condition == parseConditionString(conditionStr)
                targetToken == current(tokens, to)
                nextToken == current(tokens, advance(tokens, to))
            IN IF condition.threw THEN ActionParserError
               ELSE IF targetToken.type = "TO"
               THEN CASE nextToken.type = "START" ->
                            ParsedAction(MoveWhereAction(path.val, condition.ast,
                                                         "START", Undefined))
                      [] nextToken.type = "END" ->
                            ParsedAction(MoveWhereAction(path.val, condition.ast,
                                                         "END", Undefined))
                      [] nextToken.type = "NUMBER" ->
                            ParsedAction(MoveWhereAction(
                                path.val, condition.ast,
                                IF nextToken.value = 0 THEN "START" ELSE "END",
                                Undefined))
                      [] OTHER -> ActionParserError
               ELSE IF targetToken.type \in {"AFTER", "BEFORE"}
               THEN LET refTokens == SubSeq(tokens, to + 1, Len(tokens) - 1)
                        reference ==
                            parseConditionString(reconstructConditionString(refTokens))
                    IN IF reference.threw THEN ActionParserError
                       ELSE ParsedAction(MoveWhereAction(path.val, condition.ast,
                                                         targetToken.type, reference.ast))
               ELSE ActionParserError

\* the field value pairs of UPDATE_WHERE, comma-separated, up to EOF
RECURSIVE parseUpdates(_, _, _)
parseUpdates(tokens, position, updates) ==
    LET field == current(tokens, position)
        value == parseValueToken(tokens, advance(tokens, position))
        more == Append(updates, [field |-> field.value, value |-> value.val])
    IN IF field.type # "IDENTIFIER" \/ ~value.ok THEN ParseFailed(position)
       ELSE IF current(tokens, value.pos).type = "COMMA"
       THEN parseUpdates(tokens, advance(tokens, value.pos), more)
       ELSE IF current(tokens, value.pos).type = "EOF" THEN Parsed(more, value.pos)
       ELSE ParseFailed(value.pos)

\* UPDATE_WHERE path WHERE condition SET field value [, field2 value2, ...]
parseUpdateWhere(tokens) ==
    LET path == parsePath(tokens, advance(tokens, 1))
    IN IF ~path.ok \/ current(tokens, path.pos).type # "WHERE" THEN ActionParserError
       ELSE LET from == advance(tokens, path.pos)
                to == CollectUntil(tokens, from, {"SET", "EOF"})
                conditionStr == reconstructConditionString(SubSeq(tokens, from, to - 1))
                condition == parseConditionString(conditionStr)
                updates == parseUpdates(tokens, advance(tokens, to), <<>>)
            IN IF condition.threw \/ current(tokens, to).type # "SET" \/ ~updates.ok
               THEN ActionParserError
               ELSE ParsedAction([op |-> "UPDATE_WHERE", path |-> path.val,
                                  condition |-> condition.ast, updates |-> updates.val])

\* ActionParser.parse: dispatch on the first token
parseAction(tokens) ==
    LET operation == current(tokens, 1)
    IN CASE operation.type = "SET" -> parsePathValue("SET", tokens)
         [] operation.type = "ADD" -> parsePathValue("ADD", tokens)
         [] operation.type = "DELETE" -> parsePathOnly("DELETE", tokens)
         [] operation.type = "CLEAR" -> parsePathOnly("DELETE", tokens)
         [] operation.type = "RENAME" -> parseRename(tokens)
         [] operation.type = "DEDUPLICATE" -> parsePathOnly("DEDUPLICATE", tokens)
         [] operation.type = "SORT" -> parseSort(tokens)
         [] operation.type = "SORT_BY" -> parseSortBy(tokens)
         [] operation.type = "MERGE" -> parseMerge("MERGE", tokens)
         [] operation.type = "MERGE_OVERWRITE" -> parseMerge("MERGE_OVERWRITE", tokens)
         [] operation.type = "MOVE_WHERE" -> parseMoveWhere(tokens)
         [] operation.type = "UPDATE_WHERE" -> parseUpdateWhere(tokens)
         [] OTHER -> ActionParserError

\* parseAction on a text: tokenizeAction, then ActionParser.parse
parseActionText(text) ==
    LET lexed == tokenizeActionText(text)
    IN IF ~lexed.ok THEN ActionParserError ELSE parseAction(lexed.tokens)

(***************************************************************************)
(* Rule engine (core/ruleEngine) and batch processor (core/batchProcessor).*)
(***************************************************************************)
\* JSON.parse(JSON.stringify(x)): a structural copy; an undefined member of a
\* map is dropped, an undefined element of an array becomes null
RECURSIVE JsonClone(_)
JsonClone(x) ==
    CASE x.k = "array" ->
            Arr([i \in 1..Len(x.v) |->
                    IF x.v[i] = Undefined THEN Null ELSE JsonClone(x.v[i])])
      [] x.k = "object" ->
            LET kept == SelectSeq(x.v, LAMBDA e : e[2] # Undefined)
            IN Obj([i \in 1..Len(kept) |-> <<kept[i][1], JsonClone(kept[i][2])>>])
      [] OTHER -> x

\* A rule's condition text: empty, white space only, a text the condition
\* parser rejects, or the text of a condition AST.
Condition(text, ast) == [text |-> text, ast |-> ast]
Rule(condition, action, backup) ==
    [condition |-> condition, action |-> action, options |-> [backup |-> backup]]

\* rule.condition && rule.condition.trim().length > 0
HasCondition(rule) == rule.condition.text \notin {"empty", "blank"}

\* parseCondition (parser/conditionParser): the AST, or a thrown error
parseCondition(condition) ==
    IF condition.text = "invalid" THEN [threw |-> TRUE, ast |-> Undefined]
    ELSE [threw |-> FALSE, ast |-> condition.ast]

\* tokenizeAction (parser/actionLexer): the lexemes of the text, as tokens
tokenizeAction(text) == text

\* A variant of IsSkipped with the test inverted.
IsSkippedInverted(matches) == matches.value

\* line 57, `if (!matches)`: the rule ends here, skipped
IsSkipped(matches) == ~matches.value

\* FileResult; hasData tells whether originalData and newData are present
FileResult(file, status, modified, changes, hasData, originalData, newData, error, warning) ==
    [file |-> file, status |-> status, modified |-> modified, changes |-> changes,
     hasData |-> hasData, originalData |-> originalData, newData |-> newData,
     error |-> error, warning |-> warning]

\* the result built in the catch block of executeRule and of processBatch
ThrownResult(file, error) ==
    FileResult(file, "error", FALSE, <<>>, FALSE, Undefined, Undefined, error, NoText)

\* the result returned when the condition is false
ConditionSkipped(file, before, after) ==
    FileResult(file, "skipped", FALSE, <<>>, TRUE, before, after, NoText, NoText)

\* A variant of Classify that reports a warning only when nothing changed.
ClassifyWarningUnmodified(actionResult) ==
    IF ~actionResult.success THEN "error"
    ELSE IF ~actionResult.modified
    THEN (IF actionResult.warning # NoText THEN "warning" ELSE "skipped")
    ELSE "success"

\* the status executeRule gives to the outcome of the executor
Classify(actionResult) ==
    IF ~actionResult.success THEN "error"
    ELSE IF ~actionResult.modified
    THEN (IF actionResult.warning # NoText THEN "warning" ELSE "skipped")
    ELSE (IF actionResult.warning # NoText THEN "warning" ELSE "success")

\* the result returned after the executor ran
ExecutedResult(file, actionResult, before, after) ==
    FileResult(file, Classify(actionResult),
               actionResult.success /\ actionResult.modified,
               actionResult.changes, TRUE, before, after,
               IF actionResult.success THEN NoText ELSE actionResult.error,
               IF actionResult.success THEN actionResult.warning ELSE NoText)

\* A variant of ShouldWrite that looks at newData only.
ShouldWriteNewData(result) == result.hasData /\ result.newData # Null

\* processBatch: result.modified && result.newData
ShouldWrite(result) == result.modified /\ result.hasData /\ result.newData # Null

\* processBatch: result.modified && rule.options.backup
ShouldBackup(result, r) == result.modified /\ r.options.backup

\* results.filter(r => r.status === status).length
RECURSIVE CountStatus(_, _)
CountStatus(rs, status) ==
    IF rs = <<>> THEN 0
    ELSE (IF Head(rs).status = status THEN 1 ELSE 0) + CountStatus(Tail(rs), status)

Summary(rs, created) ==
    [success |-> CountStatus(rs, "success"), warnings |-> CountStatus(rs, "warning"),
     errors |-> CountStatus(rs, "error"), skipped |-> CountStatus(rs, "skipped"),
     backupsCreated |-> created]

(***************************************************************************)
(* The inputs: front matters, conditions, action texts, rules.             *)
(***************************************************************************)
\* {c: {a: 1}}
FmMerge == Obj(<< <<"c", Obj(<< <<"a", Num(1)>> >>)>> >>)
\* {c: {b: {}}}
FmNested == Obj(<< <<"c", Obj(<< <<"b", Obj(<<>>)>> >>)>> >>)
\* {tags: ["b", "a", "b"], items: [{n: 2}, {n: 1}]}
FmArrays ==
    Obj(<< <<"tags", Arr(<<Str(<<"b">>), Str(<<"a">>), Str(<<"b">>)>>)>>,
           <<"items", Arr(<<Obj(<< <<"n", Num(2)>> >>), Obj(<< <<"n", Num(1)>> >>)>>)>> >>)
\* {c: 1, s: "x"}
FmScalar == Obj(<< <<"c", Num(1)>>, <<"s", Str(<<"x">>)>> >>)
\* a file without front matter
NoFrontmatter == Undefined

FrontMatters == <<FmMerge, FmNested, FmArrays, FmScalar, NoFrontmatter>>

\* the files of a batch are 1..MaxFiles
MaxFiles == 2
Files == 1..MaxFiles
Vaults ==
    {[f \in Files |-> FrontMatters[((k + f - 1) % Len(FrontMatters)) + 1]] :
        k \in 0..(Len(FrontMatters) - 1)}

\* the days the clock can show
Days == {1, 2}

Keyword(type) == Token(type, type)
Identifier(name) == Token("IDENTIFIER", name)
Template(name, arg) == Token("TEMPLATE", Variable(name, arg))
EOF == Token("EOF", "")

\* /x+/ and /x++/
SafePattern == <<"/", "x", "+", "/">>
RepeatedPlusPattern == <<"/", "x", "+", "+", "/">>

RegexNode(left, pattern) ==
    [type |-> "comparison", left |-> left, operator |-> "~", right |-> Str(pattern)]
ExistsNode(path) == [type |-> "existence", path |-> path, operator |-> "exists"]
NotNode(operand) == [type |-> "not", operand |-> operand]

NoCondition == Condition("empty", Undefined)
Conditions ==
    {NoCondition, Condition("blank", Undefined), Condition("invalid", Undefined),
     Condition("valid", ExistsNode(<<"c">>)),
     Condition("valid", NotNode(ExistsNode(<<"c">>))),
     Condition("valid", RegexNode(<<"s">>, SafePattern)),
     Condition("valid", RegexNode(<<"s">>, RepeatedPlusPattern))}

\* {"a": 1}
SourceSame == Obj(<< <<"a", Num(1)>> >>)
\* {"a": 1, "b": {"hasOwnProperty": 2}}
SourceHasOwnProperty ==
    Obj(<< <<"a", Num(1)>>, <<"b", Obj(<< <<"hasOwnProperty", Num(2)>> >>)>> >>)
\* {"t": [1]}
SourceArray == Obj(<< <<"t", Arr(<<Num(1)>>)>> >>)

\* MERGE c {"a": 1}
ActMergeSame ==
    <<Keyword("MERGE"), Identifier("c"), Token("OBJECT", SourceSame), EOF>>
\* MERGE c {"a": 1, "b": {"hasOwnProperty": 2}}
ActMergeHasOwnProperty ==
    <<Keyword("MERGE"), Identifier("c"), Token("OBJECT", SourceHasOwnProperty), EOF>>
\* SET d "{{bogus}}"
ActSetUnknownTemplate ==
    <<Keyword("SET"), Identifier("d"), Template("bogus", <<>>), EOF>>
\* SET
ActUnparsable == <<Keyword("SET"), EOF>>

\* SET s "x", d 1
Comma == Token("COMMA", ",")
ActSetPairs ==
    <<Keyword("SET"), Identifier("s"), Token("STRING", <<"x">>), Comma,
      Identifier("d"), Token("NUMBER", 1), EOF>>

\* the action texts every condition is combined with
CoreActions == {ActMergeSame, ActMergeHasOwnProperty, ActSetUnknownTemplate, ActUnparsable}

\* the action texts that name an idempotent operation
IdempotentActions ==
    {ActMergeSame, ActMergeHasOwnProperty,
     \* MERGE c {"t": [1]}
     <<Keyword("MERGE"), Identifier("c"), Token("OBJECT", SourceArray), EOF>>,
     \* MERGE_OVERWRITE c {"a": 1}
     <<Keyword("MERGE_OVERWRITE"), Identifier("c"), Token("OBJECT", SourceSame), EOF>>,
     \* MERGE_OVERWRITE c {"t": [1]}
     <<Keyword("MERGE_OVERWRITE"), Identifier("c"), Token("OBJECT", SourceArray), EOF>>,
     \* DELETE c
     <<Keyword("DELETE"), Identifier("c"), EOF>>,
     \* CLEAR c.a
     <<Keyword("CLEAR"), Identifier("c"), Keyword("DOT"), Identifier("a"), EOF>>,
     \* DEDUPLICATE tags
     <<Keyword("DEDUPLICATE"), Identifier("tags"), EOF>>,
     \* SORT tags
     <<Keyword("SORT"), Identifier("tags"), EOF>>,
     \* SORT tags DESC
     <<Keyword("SORT"), Identifier("tags"), Keyword("DESC"), EOF>>,
     \* SORT_BY items BY n
     <<Keyword("SORT_BY"), Identifier("items"), Keyword("BY"), Identifier("n"), EOF>>,
     \* SORT_BY items BY n DESC
     <<Keyword("SORT_BY"), Identifier("items"), Keyword("BY"), Identifier("n"),
       Keyword("DESC"), EOF>>}

ActionTexts ==
    IdempotentActions \cup CoreActions \cup
    {\* SET s "x"
     <<Keyword("SET"), Identifier("s"), Token("STRING", <<"x">>), EOF>>,
     \* SET d "{{today}}"
     <<Keyword("SET"), Identifier("d"), Template("today", <<>>), EOF>>,
     \* SET d "{{fm:s}}"
     <<Keyword("SET"), Identifier("d"), Template("fm:", <<"s">>), EOF>>,
     \* ADD c 1
     <<Keyword("ADD"), Identifier("c"), Token("NUMBER", 1), EOF>>,
     \* RENAME s c
     <<Keyword("RENAME"), Identifier("s"), Identifier("c"), EOF>>,
     \* RENAME c d
     <<Keyword("RENAME"), Identifier("c"), Identifier("d"), EOF>>,
     \* FOO c
     <<Identifier("FOO"), Identifier("c"), EOF>>,
     ActSetPairs}

Rules ==
    {Rule(condition, action, backup) :
        condition \in Conditions, action \in CoreActions, backup \in BOOLEAN}
    \cup {Rule(NoCondition, action, backup) : action \in ActionTexts, backup \in BOOLEAN}

(***************************************************************************)
(* The state.                                                              *)
(***************************************************************************)
VARIABLES
    vault,            \* the front matter of each file of the batch
    backups,          \* the content of each file's .bak file, Undefined if none
    written,          \* the files processBatch has written
    rule,             \* the rule of the run
    clock,            \* the day the clock shows
    i,                \* processBatch: the index of the file in hand
    pc,               \* the statement the run is at
    data,             \* executeRule: the front matter read, mutated in place
    originalData,     \* executeRule: the deep copy taken after the read
    resolvedAction,   \* executeRule: the action text with its templates resolved
    actionAST,        \* executeRule: the parsed action
    actionResult,     \* executeRule: what the executor returned
    result,           \* the FileResult executeRule returned
    results,          \* processBatch: the results pushed so far
    backupsCreated,   \* processBatch: its counter
    summary,          \* processBatch: the summary returned
    steps,            \* the steps executeRule has taken on the file in hand
    fn,               \* the function a direct call is made to
    input,            \* the argument of the direct call
    output            \* the outcomes of the direct calls made

batchVars == <<vault, backups, written, rule, clock, i, results, backupsCreated, summary>>
localVars == <<data, originalData, resolvedAction, actionAST, actionResult>>
callVars == <<fn, input, output>>
vars == <<batchVars, localVars, result, pc, steps, callVars>>

NoRule == Rule(NoCondition, <<EOF>>, FALSE)
NoAST == ActionAST("NONE", <<>>, Undefined, <<>>, NoText, NoText)
NoActionResult == ActionResult(Undefined, FALSE, FALSE, <<>>, NoText, NoText)
NoResult == FileResult(0, "none", FALSE, <<>>, FALSE, Undefined, Undefined, NoText, NoText)
NoSummary == Summary(<<>>, 0)

\* the locals of executeRule before its first statement
LocalsFresh ==
    /\ data = Undefined
    /\ originalData = Undefined
    /\ resolvedAction = <<>>
    /\ actionAST = NoAST
    /\ actionResult = NoActionResult
    /\ result = NoResult
    /\ steps = <<>>

NoCall == fn = "none" /\ input = Undefined /\ output = <<>>

NoBatch ==
    /\ vault = <<>> /\ backups = <<>> /\ written = {} /\ rule = NoRule /\ clock = 1
    /\ i = 0 /\ results = <<>> /\ backupsCreated = 0 /\ summary = NoSummary
    /\ pc = "idle"
    /\ LocalsFresh

\* processBatch(app, files, rule) is called: a vault, a rule, a day
Init ==
    /\ vault \in Vaults
    /\ backups = [f \in Files |-> Undefined]
    /\ written = {}
    /\ rule \in Rules
    /\ clock \in Days
    /\ i = 1
    /\ results = <<>>
    /\ backupsCreated = 0
    /\ summary = NoSummary
    /\ pc = "executeRule"
    /\ LocalsFresh
    /\ NoCall

\* a variant that hands out again the object an earlier call returned, with
\* the mutations made to it since
readFrontmatterCached(fileContent) ==
    IF output # <<>> /\ output[Len(output)].hasData THEN output[Len(output)].newData
    ELSE IF fileContent = Undefined THEN Obj(<<>>) ELSE fileContent

\* readFrontmatter: `parsed.data || {}`
readFrontmatter(fileContent) ==
    IF fileContent = Undefined THEN Obj(<<>>) ELSE fileContent

\* executeRule returns
Return(r) == result' = r /\ pc' = "returned"

(***************************************************************************)
(* executeRule, statement by statement.                                    *)
(***************************************************************************)
\* lines 49-50: the read and the deep copy
ReadFrontmatter ==
    /\ pc = "executeRule"
    /\ data' = readFrontmatter(vault[i])
    /\ originalData' = JsonClone(data')
    /\ steps' = Append(steps, "read")
    /\ pc' = "condition"
    /\ UNCHANGED <<batchVars, resolvedAction, actionAST, actionResult, result, callVars>>

\* the read throws: the catch block builds the result
ReadFails ==
    /\ pc = "executeRule"
    /\ Return(ThrownResult(i, "Failed to read frontmatter"))
    /\ steps' = Append(steps, "read")
    /\ UNCHANGED <<batchVars, localVars, callVars>>

\* lines 53-68: the condition, if there is one
EvaluateCondition ==
    /\ pc = "condition"
    /\ IF ~HasCondition(rule)
       THEN pc' = "template" /\ UNCHANGED <<result, steps>>
       ELSE LET conditionAST == parseCondition(rule.condition)
                matches == evaluateCondition(conditionAST.ast, data)
            IN IF conditionAST.threw
               THEN Return(ThrownResult(i, "ConditionParserError")) /\ UNCHANGED steps
               ELSE /\ steps' = Append(steps, "condition")
                    /\ IF matches.threw THEN Return(ThrownResult(i, matches.error))
                       ELSE IF IsSkipped(matches)
                       THEN Return(ConditionSkipped(i, originalData, data))
                       ELSE pc' = "template" /\ UNCHANGED result
    /\ UNCHANGED <<batchVars, localVars, callVars>>

\* lines 53-56 when a regex match of the condition took longer than
\* REGEX_TIMEOUT_MS: evaluateRegex throws after the match returned, and the
\* catch block builds the result
RegexTimeout ==
    /\ pc = "condition"
    /\ HasCondition(rule)
    /\ LET conditionAST == parseCondition(rule.condition)
       IN /\ ~conditionAST.threw
          /\ evaluateCondition(conditionAST.ast, data).compiled
    /\ Return(ThrownResult(i, "Regex execution timeout"))
    /\ steps' = Append(steps, "condition")
    /\ UNCHANGED <<batchVars, localVars, callVars>>

\* lines 70-76: the templates of the action text
ResolveTemplates ==
    /\ pc = "template"
    /\ LET resolved == resolveTemplates(rule.action, data, clock)
       IN IF resolved.threw
          THEN Return(ThrownResult(i, resolved.error)) /\ UNCHANGED resolvedAction
          ELSE /\ resolvedAction' = resolved.value
               /\ pc' = "parse"
               /\ UNCHANGED result
    /\ steps' = Append(steps, "template")
    /\ UNCHANGED <<batchVars, data, originalData, actionAST, actionResult, callVars>>

\* line 79: the action text is parsed
ParseAction ==
    /\ pc = "parse"
    /\ LET parsed == parseAction(tokenizeAction(resolvedAction))
       IN IF parsed.threw
          THEN Return(ThrownResult(i, "ActionParserError")) /\ UNCHANGED actionAST
          ELSE /\ actionAST' = parsed.ast
               /\ pc' = "execute"
               /\ UNCHANGED result
    /\ steps' = Append(steps, "parse")
    /\ UNCHANGED <<batchVars, data, originalData, resolvedAction, actionResult, callVars>>

\* lines 80-117: the executor runs on data, and its outcome is classified
ExecuteAction ==
    /\ pc = "execute"
    /\ actionResult' = executeAction(actionAST, data)
    /\ data' = actionResult'.data
    /\ Return(ExecutedResult(i, actionResult', originalData, data'))
    /\ steps' = Append(steps, "execute")
    /\ UNCHANGED <<batchVars, originalData, resolvedAction, actionAST, callVars>>

(***************************************************************************)
(* processBatch, statement by statement.                                   *)
(***************************************************************************)
\* line 67
PushResult ==
    /\ pc = "returned"
    /\ results' = Append(results, result)
    /\ pc' = "backup"
    /\ UNCHANGED <<vault, backups, written, rule, clock, i, backupsCreated, summary,
                   localVars, result, steps, callVars>>

\* lines 70-77 and createBackup
CreateBackup ==
    /\ pc = "backup"
    /\ IF ShouldBackup(result, rule)
       THEN /\ backups' = [backups EXCEPT ![i] = vault[i]]
            /\ backupsCreated' = backupsCreated + 1
       ELSE UNCHANGED <<backups, backupsCreated>>
    /\ pc' = "write"
    /\ UNCHANGED <<vault, written, rule, clock, i, results, summary,
                   localVars, result, steps, callVars>>

\* createBackup throws: the error is logged and the run goes on
BackupFails ==
    /\ pc = "backup"
    /\ ShouldBackup(result, rule)
    /\ pc' = "write"
    /\ UNCHANGED <<batchVars, localVars, result, steps, callVars>>

\* lines 80-86 and writeFrontmatter
WriteFrontmatter ==
    /\ pc = "write"
    /\ IF ShouldWrite(result)
       THEN /\ vault' = [vault EXCEPT ![i] = result.newData]
            /\ written' = written \cup {i}
       ELSE UNCHANGED <<vault, written>>
    /\ pc' = "next"
    /\ UNCHANGED <<backups, rule, clock, i, results, backupsCreated, summary,
                   localVars, result, steps, callVars>>

\* the write throws: lines 117-127 push one more result
WriteFails ==
    /\ pc = "write"
    /\ ShouldWrite(result)
    /\ results' = Append(results, ThrownResult(i, "Failed to write frontmatter"))
    /\ pc' = "next"
    /\ UNCHANGED <<vault, backups, written, rule, clock, i, backupsCreated, summary,
                   localVars, result, steps, callVars>>

\* the loop goes to the next file
NextFile ==
    /\ pc = "next"
    /\ i < MaxFiles
    /\ i' = i + 1
    /\ pc' = "executeRule"
    /\ data' = Undefined
    /\ originalData' = Undefined
    /\ resolvedAction' = <<>>
    /\ actionAST' = NoAST
    /\ actionResult' = NoActionResult
    /\ result' = NoResult
    /\ steps' = <<>>
    /\ UNCHANGED <<vault, backups, written, rule, clock, results, backupsCreated,
                   summary, callVars>>

\* lines 131-140: the summary is returned
Summarise ==
    /\ pc = "next"
    /\ i = MaxFiles
    /\ summary' = Summary(results, backupsCreated)
    /\ pc' = "done"
    /\ UNCHANGED <<vault, backups, written, rule, clock, i, results, backupsCreated,
                   localVars, result, steps, callVars>>

Next ==
    \/ ReadFrontmatter
    \/ ReadFails
    \/ EvaluateCondition
    \/ RegexTimeout
    \/ ResolveTemplates
    \/ ParseAction
    \/ ExecuteAction
    \/ PushResult
    \/ CreateBackup
    \/ BackupFails
    \/ WriteFrontmatter
    \/ WriteFails
    \/ NextFile
    \/ Summarise

Spec == Init /\ [][Next]_vars

(***************************************************************************)
(* Direct calls of the literal parser: parseObject, parseArray, parseValue *)
(* on the text of a JSON document.                                         *)
(***************************************************************************)
\* the bare word null in every mix of upper and lower case
NullVariants ==
    {<<n, u, l, m>> : n \in {"n", "N"}, u \in {"u", "U"}, l \in {"l", "L"},
                      m \in {"l", "L"}}

LiteralTexts ==
    {JsonText(doc) : doc \in JsonDocs}
    \cup NullVariants
    \cup {<<"{", "\"a\"", ":", "1">>, <<"[", "1">>, <<" ", "n", "u", "l", "l">>,
          <<"T", "r", "u", "e">>, <<"1", "2">>, <<"\"", "x", "\"">>, <<"x">>, <<>>}

\* double-quoted literals of up to MaxEscaped characters between the quotes
MaxEscaped == 4
EscapeAlphabet == {"\\", "n", "t", "\"", "x"}
EscapedLiterals ==
    {<<"\"">> \o content \o <<"\"">> :
        content \in UNION {[1..n -> EscapeAlphabet] : n \in 0..MaxEscaped}}

InitLiteral ==
    /\ NoBatch
    /\ \/ fn \in {"parseObject", "parseArray", "parseValue"} /\ input \in LiteralTexts
       \/ fn = "parseString" /\ input \in EscapedLiterals
    /\ output = <<>>

CallParseObject ==
    /\ fn = "parseObject"
    /\ output = <<>>
    /\ output' = <<parseObject(input)>>
    /\ UNCHANGED <<batchVars, localVars, result, pc, steps, fn, input>>

CallParseArray ==
    /\ fn = "parseArray"
    /\ output = <<>>
    /\ output' = <<parseArray(input)>>
    /\ UNCHANGED <<batchVars, localVars, result, pc, steps, fn, input>>

CallParseValue ==
    /\ fn = "parseValue"
    /\ output = <<>>
    /\ output' = <<parseValue(input)>>
    /\ UNCHANGED <<batchVars, localVars, result, pc, steps, fn, input>>

CallParseString ==
    /\ fn = "parseString"
    /\ output = <<>>
    /\ output' = <<parseString(input)>>
    /\ UNCHANGED <<batchVars, localVars, result, pc, steps, fn, input>>

NextLiteral == CallParseObject \/ CallParseArray \/ CallParseValue \/ CallParseString

SpecLiteral == InitLiteral /\ [][NextLiteral]_vars

(***************************************************************************)
(* Direct calls of the condition evaluator.                                *)
(***************************************************************************)
\* a pattern of n characters "a"
PatternOfLength(n) == <<"/">> \o [j \in 1..n |-> "a"] \o <<"/">>

\* the patterns the guards must reject: too long, or of a forbidden shape
TooLongPattern == PatternOfLength(MAX_REGEX_LENGTH + 1)
ForbiddenShapePatterns ==
    {<<"/", "x", "+", "*", "/">>, <<"/", "x", "*", "+", "/">>,
     <<"/", "x", "{", "1", ",", "}", "/">>, <<"/", ".", "*", ".", "*", "/">>,
     RepeatedPlusPattern, <<"/", "x", "*", "*", "/">>,
     <<"/", "a", "x", "+", "+", "b", "/", "i">>}
GuardedPatterns == ForbiddenShapePatterns \cup {TooLongPattern}

\* patterns the guards let through, and texts that are no regex literal
OtherPatterns ==
    {SafePattern, <<"/", "x", "/">>, <<"/", "x", "*", "/", "g">>,
     <<"/", ".", "*", "/">>,
     PatternOfLength(MAX_REGEX_LENGTH), <<"/", "*", "x", "/">>, <<"x">>}

RegexNodes ==
    {RegexNode(left, pattern) :
        left \in {<<"s">>, <<"c">>}, pattern \in GuardedPatterns \cup OtherPatterns}

QuantifierNode(quantifier, array, condition) ==
    [type |-> "quantifier", quantifier |-> quantifier, array |-> array,
     condition |-> condition]
\* n <operator> <number>
NumberNode(operator, number) ==
    [type |-> "comparison", left |-> <<"n">>, operator |-> operator,
     right |-> Num(number)]

\* {n: 5, items: [{n: 2, tasks: [{n: 1}, {n: 2}]}, {n: 1, tasks: []}]}
FmTasks ==
    Obj(<< <<"n", Num(5)>>,
           <<"items",
             Arr(<<Obj(<< <<"n", Num(2)>>,
                          <<"tasks", Arr(<<Obj(<< <<"n", Num(1)>> >>),
                                           Obj(<< <<"n", Num(2)>> >>)>>)>> >>),
                   Obj(<< <<"n", Num(1)>>, <<"tasks", Arr(<<>>)>> >>)>>)>> >>)

\* conditions of the other node types
OtherNodes ==
        <<ExistsNode(<<"c">>), NotNode(ExistsNode(<<"s">>)),
          [type |-> "existence", path |-> <<"c">>, operator |-> "!exists"],
          [type |-> "comparison", left |-> <<"c">>, operator |-> "=", right |-> Num(1)],
          [type |-> "comparison", left |-> <<"c">>, operator |-> "=",
           right |-> Str(<<"1">>)],
          [type |-> "comparison", left |-> <<"c">>, operator |-> "!=", right |-> Num(1)],
          [type |-> "comparison", left |-> <<"c">>, operator |-> "!=",
           right |-> Str(<<"1">>)],
          [type |-> "comparison", left |-> <<"c">>, operator |-> "=", right |-> Bool(TRUE)],
          [type |-> "comparison", left |-> <<"s">>, operator |-> "=",
           right |-> Str(<<"x">>)],
          [type |-> "comparison", left |-> <<"s">>, operator |-> "=", right |-> Null],
          [type |-> "comparison", left |-> <<"c">>, operator |-> ">=", right |-> Num(1)],
          [type |-> "type_check", path |-> <<"c">>, typeCheck |-> "object",
           negated |-> FALSE],
          [type |-> "type_check", path |-> <<"s">>, typeCheck |-> "string",
           negated |-> TRUE],
          [type |-> "empty_check", path |-> <<"tags">>, operator |-> "empty"],
          [type |-> "empty_check", path |-> <<"c">>, operator |-> "!empty"],
          [type |-> "has", path |-> <<"tags">>, operator |-> "has",
           value |-> Str(<<"a">>)],
          [type |-> "has", path |-> <<"tags">>, operator |-> "!has",
           value |-> Str(<<"a">>)],
          [type |-> "has", path |-> <<"tags">>, operator |-> "has",
           value |-> Str(<<"z">>)],
          [type |-> "has", path |-> <<"tags">>, operator |-> "!has",
           value |-> Str(<<"z">>)],
          [type |-> "has", path |-> <<"c">>, operator |-> "has", value |-> Num(1)],
          [type |-> "has", path |-> <<"c">>, operator |-> "!has", value |-> Num(1)],
          [type |-> "has", path |-> <<"items">>, operator |-> "has", value |-> Null],
          [type |-> "boolean", operator |-> "AND", left |-> ExistsNode(<<"d">>),
           right |-> RegexNode(<<"s">>, RepeatedPlusPattern)],
          [type |-> "boolean", operator |-> "OR", left |-> ExistsNode(<<"c">>),
           right |-> RegexNode(<<"s">>, SafePattern)],
          [type |-> "quantifier", quantifier |-> "ANY", array |-> <<"items">>,
           condition |-> [type |-> "comparison", left |-> <<"n">>, operator |-> ">",
                          right |-> Num(1)]],
          [type |-> "quantifier", quantifier |-> "ALL", array |-> <<"tags">>,
           condition |-> RegexNode(<<>>, SafePattern)],
          QuantifierNode("ALL", <<"items">>, NumberNode(">", 1)),
          QuantifierNode("ALL", <<"items">>, NumberNode(">=", 1)),
          QuantifierNode("ANY", <<"items">>, NumberNode(">", 4)),
          QuantifierNode("ANY", <<"c">>, ExistsNode(<<"n">>)),
          QuantifierNode("ALL", <<"c">>, ExistsNode(<<"n">>)),
          QuantifierNode("ANY", <<"tags">>, RegexNode(<<>>, RepeatedPlusPattern)),
          QuantifierNode("ANY", <<"items">>,
                         QuantifierNode("ANY", <<"tasks">>, NumberNode("=", 1))),
          QuantifierNode("ALL", <<"items">>,
                         QuantifierNode("ANY", <<"tasks">>, NumberNode("=", 1))),
          QuantifierNode("ANY", <<"items">>,
                         QuantifierNode("ALL", <<"tasks">>, NumberNode("=", 1)))>>

\* the values the conditions are evaluated on: the front matters, and
\* {s: null, c: [], t: true, e: "", when: 2024-01-01}, and a value with nested
\* sequences
ConditionData ==
    [f \in 1..Len(FrontMatters) |-> readFrontmatter(FrontMatters[f])]
    \o <<Obj(<< <<"s", Null>>, <<"c", Arr(<<>>)>>, <<"t", Bool(TRUE)>>,
                <<"e", Str(<<>>)>>, <<"when", Timestamp>> >>),
          FmTasks>>

\* the empty checks, plain and negated, on eight paths
EmptyCheckNodes ==
    {[type |-> "empty_check", path |-> path, operator |-> operator] :
        path \in {<<"c">>, <<"c", "b">>, <<"s">>, <<"tags">>, <<"t">>, <<"e">>, <<"n">>,
                  <<"when">>},
        operator \in {"empty", "!empty"}}

\* the type checks: every kind, plain and negated, on four paths
TypeKinds == {"string", "number", "boolean", "array", "object", "null"}
TypeCheckNodes ==
    {[type |-> "type_check", path |-> path, typeCheck |-> kind, negated |-> negated] :
        path \in {<<"c">>, <<"s">>, <<"tags">>, <<"t">>}, kind \in TypeKinds,
        negated \in BOOLEAN}

InitCondition ==
    /\ NoBatch
    /\ fn = "evaluateCondition"
    /\ \E f \in 1..Len(ConditionData) :
          \/ \E node \in RegexNodes : input = [node |-> node, data |-> ConditionData[f]]
          \/ \E node \in TypeCheckNodes \cup EmptyCheckNodes :
                input = [node |-> node, data |-> ConditionData[f]]
          \/ \E n \in 1..Len(OtherNodes) :
                input = [node |-> OtherNodes[n], data |-> ConditionData[f]]
    /\ output = <<>>

CallEvaluateCondition ==
    /\ fn = "evaluateCondition"
    /\ output = <<>>
    /\ output' = <<evaluateCondition(input.node, input.data)>>
    /\ UNCHANGED <<batchVars, localVars, result, pc, steps, fn, input>>

NextCondition == CallEvaluateCondition

SpecCondition == InitCondition /\ [][NextCondition]_vars

(***************************************************************************)
(* Direct calls of the executor: one action applied again and again to the *)
(* value the call before left.                                             *)
(***************************************************************************)
MaxApplications == 2

InitAction ==
    /\ NoBatch
    /\ fn = "executeAction"
    /\ input \in {[ast |-> parseAction(text).ast, data |-> readFrontmatter(FrontMatters[f])] :
                     text \in IdempotentActions, f \in 1..Len(FrontMatters)}
    /\ output = <<>>

CallExecuteAction ==
    /\ fn = "executeAction"
    /\ Len(output) < MaxApplications
    /\ output' = Append(output,
                        executeAction(input.ast,
                                      IF output = <<>> THEN input.data
                                      ELSE output[Len(output)].data))
    /\ UNCHANGED <<batchVars, localVars, result, pc, steps, fn, input>>

NextAction == CallExecuteAction

SpecAction == InitAction /\ [][NextAction]_vars

(***************************************************************************)
(* Direct calls of executeRule: the rule is run again and again on the     *)
(* same file, which nobody writes in between, under the same clock.        *)
(***************************************************************************)
MaxInvocations == 2

InitRule ==
    /\ \E f \in 1..Len(FrontMatters) : vault = [g \in Files |-> FrontMatters[f]]
    /\ backups = [f \in Files |-> Undefined]
    /\ written = {}
    /\ rule \in Rules
    /\ clock \in Days
    /\ i = 1
    /\ results = <<>>
    /\ backupsCreated = 0
    /\ summary = NoSummary
    /\ pc = "executeRule"
    /\ LocalsFresh
    /\ fn = "executeRule" /\ input = Undefined /\ output = <<>>

\* executeRule has returned to its caller, who calls it again
CallExecuteRuleAgain ==
    /\ fn = "executeRule"
    /\ pc = "returned"
    /\ output' = Append(output, result)
    /\ IF Len(output') < MaxInvocations
       THEN /\ pc' = "executeRule"
            /\ data' = Undefined
            /\ originalData' = Undefined
            /\ resolvedAction' = <<>>
            /\ actionAST' = NoAST
            /\ actionResult' = NoActionResult
            /\ result' = NoResult
            /\ steps' = <<>>
       ELSE pc' = "done" /\ UNCHANGED <<localVars, result, steps>>
    /\ UNCHANGED <<batchVars, fn, input>>

NextRule ==
    \/ ReadFrontmatter
    \/ EvaluateCondition
    \/ RegexTimeout
    \/ ResolveTemplates
    \/ ParseAction
    \/ ExecuteAction
    \/ CallExecuteRuleAgain

SpecRule == InitRule /\ [][NextRule]_vars

(***************************************************************************)
(* Direct calls of evaluateRegex, with the duration of the match drawn     *)
(* from durations below, at and above the budget.                          *)
(***************************************************************************)
RegexValues ==
    {Str(<<"x">>), Str(<<"a", "x", "x">>), Str(<<>>), Num(1), Null}

Durations == {0, REGEX_TIMEOUT_MS, REGEX_TIMEOUT_MS + 1, 2 * REGEX_TIMEOUT_MS}

InitRegex ==
    /\ NoBatch
    /\ fn = "evaluateRegex"
    /\ input \in [value : RegexValues, pattern : GuardedPatterns \cup OtherPatterns,
                  duration : Durations]
    /\ output = <<>>

CallEvaluateRegex ==
    /\ fn = "evaluateRegex"
    /\ output = <<>>
    /\ output' = <<evaluateRegexTimed(input.value, input.pattern, input.duration)>>
    /\ UNCHANGED <<batchVars, localVars, result, pc, steps, fn, input>>

NextRegex == CallEvaluateRegex

SpecRegex == InitRegex /\ [][NextRegex]_vars

(***************************************************************************)
(* Direct calls of createBackup.  A file is its path, its content and      *)
(* whether the vault can read it; backupExists says whether the adapter    *)
(* already holds a file at the backup path.                                *)
(***************************************************************************)
BakSuffix == <<".", "b", "a", "k">>

\* the call of the vault or the adapter that stores the backup
Stored(op, path, content) == [op |-> op, path |-> path, content |-> content]

createBackup(file, backupExists) ==
    LET backupPath == file.path \o BakSuffix
    IN IF ~file.readable THEN Thrown("read failed")
       ELSE IF backupExists
       THEN Returned(Stored("adapter.write", backupPath, file.content))
       ELSE Returned(Stored("vault.create", backupPath, file.content))

SafePaths ==
    {<<"n", ".", "m", "d">>, <<"d", "/", "n", ".", "m", "d">>}
TraversalPaths ==
    {<<".", ".", "/", "n", ".", "m", "d">>,
     <<"d", "/", ".", ".", "/", "n", ".", "m", "d">>}
AbsolutePaths == {<<"/", "n", ".", "m", "d">>}
UnnormalizedPaths == {<<"d", "/", "/", "n", ".", "m", "d">>}
BackupPaths == SafePaths \cup TraversalPaths \cup AbsolutePaths \cup UnnormalizedPaths

InitBackup ==
    /\ NoBatch
    /\ fn = "createBackup"
    /\ \E path \in BackupPaths, f \in 1..Len(FrontMatters), readable \in BOOLEAN,
          backupExists \in BOOLEAN :
          input = [file |-> [path |-> path, content |-> FrontMatters[f],
                             readable |-> readable],
                   backupExists |-> backupExists]
    /\ output = <<>>

CallCreateBackup ==
    /\ fn = "createBackup"
    /\ output = <<>>
    /\ output' = <<createBackup(input.file, input.backupExists)>>
    /\ UNCHANGED <<batchVars, localVars, result, pc, steps, fn, input>>

NextBackup == CallCreateBackup

SpecBackup == InitBackup /\ [][NextBackup]_vars

(***************************************************************************)
(* Direct calls of executeMerge and executeMergeOverwrite on a heap that   *)
(* holds the front matter and the parsed literal.                          *)
(***************************************************************************)
MergeSources ==
    {Obj(<<>>),
     Obj(<< <<"a", Num(1)>>, <<"b", Num(2)>> >>),
     Obj(<< <<"a", Obj(<< <<"x", Num(1)>> >>)>> >>),
     Obj(<< <<"b", Obj(<< <<"y", Arr(<<Num(1)>>)>> >>)>> >>),
     Obj(<< <<"a", Obj(<< <<"x", Num(1)>> >>)>>, <<"b", Obj(<< <<"x", Num(1)>> >>)>> >>),
     Obj(<< <<"hasOwnProperty", Num(1)>> >>),
     \* {"z": 3, "1": 2} as JSON.parse returns it
     Obj(<< <<"1", Num(2)>>, <<"z", Num(3)>> >>)}

MergePaths == {<<"c">>, <<"d">>, <<"c", "b">>, <<"d", "e">>, <<"tags">>}

\* {c: {a: {x: 2, w: 3}, b: {k: 1, y: [0]}}}
FmDeep ==
    Obj(<< <<"c", Obj(<< <<"a", Obj(<< <<"x", Num(2)>>, <<"w", Num(3)>> >>)>>,
                         <<"b", Obj(<< <<"k", Num(1)>>,
                                       <<"y", Arr(<<Num(0)>>)>> >>)>> >>)>> >>)

\* c:
\*   a: 2024-01-15
\* d:
\*   e: 2024-01-15
\* tags: null
FmDated ==
    Obj(<< <<"c", Obj(<< <<"a", Timestamp>> >>)>>,
           <<"d", Obj(<< <<"e", Timestamp>> >>)>>,
           <<"tags", Null>> >>)

\* the front matters the object actions are called on
MergeData == FrontMatters \o <<FmDeep, FmDated>>

InitMerge ==
    /\ NoBatch
    /\ fn \in {"executeMerge", "executeMergeOverwrite"}
    /\ \E f \in 1..Len(MergeData), source \in MergeSources, path \in MergePaths :
          LET frontmatter == Allocate(<<>>, readFrontmatter(MergeData[f]))
              literal == Allocate(frontmatter.heap, source)
          IN input = [heap |-> literal.heap, data |-> frontmatter.slot.v,
                      path |-> path, value |-> literal.slot]
    /\ output = <<>>

CallExecuteMerge ==
    /\ fn = "executeMerge"
    /\ output = <<>>
    /\ output' = <<executeMergeInPlace(input.heap, input.data, input.path, input.value)>>
    /\ UNCHANGED <<batchVars, localVars, result, pc, steps, fn, input>>

CallExecuteMergeOverwrite ==
    /\ fn = "executeMergeOverwrite"
    /\ output = <<>>
    /\ output' = <<executeMergeOverwriteInPlace(input.heap, input.data, input.path,
                                               input.value)>>
    /\ UNCHANGED <<batchVars, localVars, result, pc, steps, fn, input>>

NextMerge == CallExecuteMerge \/ CallExecuteMergeOverwrite

SpecMerge == InitMerge /\ [][NextMerge]_vars

(***************************************************************************)
(* Direct calls of parseAction on the text of a MOVE_WHERE or UPDATE_WHERE *)
(* action, and of parseCondition on the text of its condition.             *)
(***************************************************************************)
MaxContent == 3

\* string literals in either quote, of up to MaxContent characters between
\* the quotes
StringAlphabet == {"x", "\"", "'", "\\", " ", "T", "O"}
StringContents == UNION {[1..n -> StringAlphabet] : n \in 0..MaxContent}
StringLiterals ==
    {<<quote>> \o content \o <<quote>> : quote \in {"\"", "'"}, content \in StringContents}

\* c > 5, s = 1
PlainConditions == {<<"c", " ", ">", " ", "5">>, <<"s", " ", "=", " ", "1">>}
\* s = LITERAL
StringConditions == {<<"s", " ", "=", " ">> \o literal : literal \in StringLiterals}
ConditionTexts == PlainConditions \cup StringConditions

TargetIndexes == {-2, -1, 0, 1, 2, 10}

UpdateWhereText(c) == <<"U", "P", "D", "A", "T", "E", "_", "W", "H", "E", "R", "E", " ", "p", " ", "W", "H", "E", "R", "E", " ">> \o c \o <<" ", "S", "E", "T", " ", "u", " ", "1">>
MoveWhereText(c, keyword, target) ==
    <<"M", "O", "V", "E", "_", "W", "H", "E", "R", "E", " ", "p", " ", "W", "H", "E", "R", "E", " ">> \o c \o <<" ">> \o keyword \o <<" ">> \o target

ParseInput(form, condition, index, text) ==
    [form |-> form, condition |-> condition, index |-> index, text |-> text]
ParseInputs ==
    {ParseInput("UPDATE_WHERE", c, 0, UpdateWhereText(c)) : c \in ConditionTexts}
    \cup {ParseInput("MOVE_WHERE TO START", c, 0,
                     MoveWhereText(c, <<"T", "O">>, <<"S", "T", "A", "R", "T">>)) : c \in ConditionTexts}
    \cup {ParseInput("MOVE_WHERE TO END", c, 0,
                     MoveWhereText(c, <<"T", "O">>, <<"E", "N", "D">>)) : c \in PlainConditions}
    \cup {ParseInput("MOVE_WHERE TO index", c, n,
                     MoveWhereText(c, <<"T", "O">>, NumberText(n))) :
             c \in PlainConditions, n \in TargetIndexes}
    \cup {ParseInput("MOVE_WHERE AFTER", c, 0, MoveWhereText(c, <<"A", "F", "T", "E", "R">>, c)) :
             c \in PlainConditions}

InitParse ==
    /\ NoBatch
    /\ fn \in {"parseAction", "parseCondition"}
    /\ input \in ParseInputs
    /\ output = <<>>

CallParseAction ==
    /\ fn = "parseAction"
    /\ output = <<>>
    /\ output' = <<parseActionText(input.text)>>
    /\ UNCHANGED <<batchVars, localVars, result, pc, steps, fn, input>>

CallParseCondition ==
    /\ fn = "parseCondition"
    /\ output = <<>>
    /\ output' = <<parseConditionString(input.condition)>>
    /\ UNCHANGED <<batchVars, localVars, result, pc, steps, fn, input>>

NextParse == CallParseAction \/ CallParseCondition

SpecParse == InitParse /\ [][NextParse]_vars

(***************************************************************************)
(* Properties.                                                             *)
(***************************************************************************)
\* executeRule has returned for the file in hand, after the read succeeded
RuleReturned == pc = "returned" /\ originalData # Undefined
Executed == \E k \in 1..Len(steps) : steps[k] = "execute"
ActionParsed == \E k \in 1..Len(steps) : steps[k] = "parse"
ConditionEvaluated == \E k \in 1..Len(steps) : steps[k] = "condition"

\* C1 (as claimed): atomicity: whenever executeRule returns a result with
\* status error, the result's newData equals its originalData.
C1_Atomicity ==
    (pc = "returned" /\ result.status = "error") => result.newData = result.originalData

\* the condition of rule r is non-empty, parses, and evaluates to false on value
ConditionFalseOn(r, value) ==
    /\ HasCondition(r)
    /\ ~parseCondition(r.condition).threw
    /\ LET matches == evaluateCondition(parseCondition(r.condition).ast, value)
       IN ~matches.threw /\ ~matches.value

\* C2: skipping soundness: once the rule's non-empty condition has been
\* evaluated on the file's front matter and is false, the action text is never
\* parsed and never executed, and the result executeRule returns is skipped,
\* with modified = false and the front matter unchanged; this holds whatever
\* the action text is, unparsable or failing ones included.
C2_SkippingSoundness ==
    (ConditionEvaluated /\ ConditionFalseOn(rule, originalData))
        => /\ ~ActionParsed
           /\ ~Executed
           /\ data = originalData
           /\ pc \in {"returned", "backup", "write", "next", "done"}
           /\ result.status = "skipped"
           /\ ~result.modified
           /\ result.newData = originalData

\* C2 witness: a false condition on a rule whose action text is unparsable,
\* returned as skipped
C2_Witness ==
    /\ pc = "returned"
    /\ ConditionEvaluated
    /\ ConditionFalseOn(rule, originalData)
    /\ rule.action = ActUnparsable
    /\ result.status = "skipped"

\* C3 (as claimed): for every outcome, the originalData of the result that
\* executeRule returns is the front matter as it was read, before the rule ran.
C3_OriginalValueReported ==
    RuleReturned => result.originalData = readFrontmatter(vault[i])

\* C4 (as claimed): ordering: the templates of the action text are expanded
\* before the condition is evaluated, and the condition is evaluated before the
\* action is executed.
C4_TemplateBeforeCondition ==
    \A k \in 1..Len(steps) :
        /\ steps[k] = "condition" => \E j \in 1..(k - 1) : steps[j] = "template"
        /\ steps[k] = "execute" =>
              (HasCondition(rule) => \E j \in 1..(k - 1) : steps[j] = "condition")

\* C5: classification: once the executor has run, the status of the result is
\* determined by the executor's outcome alone: success = false gives error;
\* otherwise modified = false gives skipped without a warning and warning with
\* one; modified = true gives success without a warning and warning with one.
C5_Classification ==
    (pc = "returned" /\ Executed)
        => /\ ~actionResult.success => result.status = "error"
           /\ (actionResult.success /\ ~actionResult.modified /\ actionResult.warning = NoText)
                 => result.status = "skipped"
           /\ (actionResult.success /\ ~actionResult.modified /\ actionResult.warning # NoText)
                 => result.status = "warning"
           /\ (actionResult.success /\ actionResult.modified /\ actionResult.warning = NoText)
                 => result.status = "success"
           /\ (actionResult.success /\ actionResult.modified /\ actionResult.warning # NoText)
                 => result.status = "warning"
           /\ result.modified = (actionResult.success /\ actionResult.modified)

\* C5 witness: an executor outcome with modified = true and a warning,
\* classified warning
C5_Witness ==
    /\ pc = "returned"
    /\ Executed
    /\ actionResult.success
    /\ actionResult.modified
    /\ actionResult.warning # NoText
    /\ result.status = "warning"

\* C6 (as claimed): an action that succeeds and leaves the front matter as it
\* was returns modified = false, and the rule is classified skipped or warning,
\* never success.
C6_NoChangeIsUnmodified ==
    (pc = "returned" /\ Executed /\ actionResult.success /\ data = originalData)
        => /\ ~actionResult.modified
           /\ result.status \in {"skipped", "warning"}

RuleResultOf(f) ==
    results[CHOOSE k \in 1..Len(results) :
                /\ results[k].file = f
                /\ \A j \in 1..(k - 1) : results[j].file # f]

\* C8: nothing is persisted on error: a file that processBatch has written or
\* backed up is a file whose rule result has modified = true, and so a status
\* other than error and skipped.
C8_NothingPersistedOnError ==
    \A f \in Files :
        (f \in written \/ backups[f] # Undefined)
            => /\ \E k \in 1..Len(results) : results[k].file = f
               /\ RuleResultOf(f).modified
               /\ RuleResultOf(f).status \notin {"error", "skipped"}

\* C8 witness: a finished batch that wrote and backed up one file and left
\* alone another, whose result is an error
C8_Witness ==
    /\ pc = "done"
    /\ \E f, g \in Files :
          /\ f \in written
          /\ backups[f] # Undefined
          /\ g \notin written
          /\ backups[g] = Undefined
          /\ RuleResultOf(g).status = "error"

\* text is the JSON text of a document of the given kind that has an own key
\* __proto__, constructor or prototype somewhere
IsUnsafeLiteral(text, kind) ==
    \E doc \in JsonDocs : JsonText(doc) = text /\ doc.k = kind /\ hasDangerousKeys(doc)

\* C9 (as claimed): prototype safety: parseObject on an object literal,
\* parseArray on an array literal and parseValue on either fail with an
\* 'unsafe properties' error when the literal holds an unsafe key at any depth.
C9_PrototypeSafety ==
    (/\ output # <<>>
     /\ \/ fn \in {"parseObject", "parseValue"} /\ IsUnsafeLiteral(input, "object")
        \/ fn \in {"parseArray", "parseValue"} /\ IsUnsafeLiteral(input, "array"))
        => output[1].threw /\ output[1].error = "unsafe properties"

\* the node is a `~` comparison whose pattern the guards must reject
IsGuardedComparison(node) ==
    /\ node.type = "comparison"
    /\ node.operator = "~"
    /\ node.right.v \in GuardedPatterns

\* C10 (as claimed): regex guards: evaluating a `~` comparison with a pattern
\* that is too long or of a forbidden shape fails with an error on every value,
\* and the pattern is never compiled.
C10_RegexGuards ==
    (fn = "evaluateCondition" /\ output # <<>> /\ IsGuardedComparison(input.node))
        => output[1].threw /\ ~output[1].compiled

\* C10 (amended): such a pattern is never compiled, and the evaluation fails
\* with an error on every value on which the left path of the comparison is
\* present; where the path is missing the comparison is false, without error.
C10_RegexGuardsWherePresent ==
    (fn = "evaluateCondition" /\ output # <<>> /\ IsGuardedComparison(input.node))
        => /\ ~output[1].compiled
           /\ resolvePath(input.data, input.node.left) # Undefined => output[1].threw
           /\ resolvePath(input.data, input.node.left) = Undefined
                 => ~output[1].threw /\ ~output[1].value

\* C10 witness: a repeated `.*` evaluated on a value that has the left path
C10_Witness ==
    /\ fn = "evaluateCondition"
    /\ output # <<>>
    /\ IsGuardedComparison(input.node)
    /\ input.node.right.v = <<"/", ".", "*", ".", "*", "/">>
    /\ resolvePath(input.data, input.node.left) # Undefined
    /\ output[1].threw

\* C11: no regex evaluation spends more than REGEX_TIMEOUT_MS on a match
\* attempt: the attempt is cut off at the budget.
RegexCalled == fn = "evaluateRegex" /\ output # <<>>
C11_RegexBudget ==
    RegexCalled => output[1].elapsed <= REGEX_TIMEOUT_MS

\* what the code does provide: a match that took longer than the budget is
\* reported as a timeout error once it has returned
C11_TimeoutReportedAfterwards ==
    RegexCalled /\ output[1].elapsed > REGEX_TIMEOUT_MS
        => output[1].outcome.threw
           /\ output[1].outcome.error = "Regex execution timeout"

\* the three shapes the backup path tests look for: a ".." segment, a leading
\* "/", and "//"
IsDangerousPath(path) ==
    \/ \E n \in 1..Len(path) : HasPairAt(path, n, ".", ".")
    \/ startsWith(path, "/")
    \/ \E n \in 1..Len(path) : HasPairAt(path, n, "/", "/")

\* C12: for a file whose path has a ".." traversal segment, is absolute or
\* holds "//", createBackup creates or overwrites no backup file.
C12_BackupPathSafety ==
    (fn = "createBackup" /\ output # <<>> /\ IsDangerousPath(input.file.path))
        => output[1].threw

\* the fields of a result the caller looks at (duration is not among them)
SameResult(a, b) ==
    /\ a.status = b.status
    /\ a.modified = b.modified
    /\ a.changes = b.changes
    /\ a.hasData = b.hasData
    /\ a.originalData = b.originalData
    /\ a.newData = b.newData
    /\ a.error = b.error
    /\ a.warning = b.warning

TimedOut(r) == r.status = "error" /\ r.error = "Regex execution timeout"

MergeCalled == fn \in {"executeMerge", "executeMergeOverwrite"} /\ output # <<>>

\* the heap and the value model agree on what the actions leave behind
HeapAgreesWithValues ==
    MergeCalled =>
        LET before == Deref(input.heap, Ref(input.data))
            literal == Deref(input.heap, input.value)
            r == IF fn = "executeMerge" THEN executeMerge(before, input.path, literal)
                 ELSE executeMergeOverwrite(before, input.path, literal)
        IN /\ Deref(output[1].heap, Ref(input.data)) = r.data
           /\ output[1].success = r.success

Keys(o) == [n \in 1..Len(o.v) |-> o.v[n][1]]
IsPrefix(s, t) == Len(s) <= Len(t) /\ SubSeq(t, 1, Len(s)) = s

\* C15: after MERGE or MERGE_OVERWRITE the keys a map had before keep their
\* order and position, and the keys the action added come after all of them.
C15_KeyOrder ==
    MergeCalled =>
        \A a \in Reachable(input.heap, input.data) :
            input.heap[a].k = "object"
                => IsPrefix(Keys(input.heap[a]), Keys(output[1].heap[a]))

\* what holds: the keys a map had before keep their relative order, and any
\* added key that is no array index comes after all of them
C15_KeyOrderButArrayIndices ==
    MergeCalled =>
        \A a \in Reachable(input.heap, input.data) :
            input.heap[a].k = "object"
                => LET before == Keys(input.heap[a])
                       after == Keys(output[1].heap[a])
                   IN /\ SelectSeq(after, LAMBDA key :
                                      \E n \in 1..Len(before) : before[n] = key) = before
                      /\ IsPrefix(before, SelectSeq(after, LAMBDA key :
                                      ~IsArrayIndex(key)
                                      \/ \E n \in 1..Len(before) : before[n] = key))

ConditionCalled == fn = "evaluateCondition" /\ output # <<>>

\* equality at value level: the same variant and the same payload (Int and
\* Float are one variant, number)
ValueEquals(a, b) == a.k = b.k /\ a.v = b.v

\* C16: on a present left side `=` is true exactly when the two values are
\* equal at value level, and `!=` exactly when they are not; a string never
\* equals a number, nor a boolean a number or a string.
C16_ComparisonEquality ==
    (/\ ConditionCalled
     /\ input.node.type = "comparison"
     /\ input.node.operator \in {"=", "!="}
     /\ resolvePath(input.data, input.node.left) # Undefined)
        => /\ ~output[1].threw
           /\ output[1].value =
                 ((input.node.operator = "=")
                    <=> ValueEquals(resolvePath(input.data, input.node.left),
                                    input.node.right))

\* the path resolves to a sequence with an element equal to the literal
ContainsLiteral(value, literal) ==
    /\ value.k = "array"
    /\ \E n \in 1..Len(value.v) : ValueEquals(value.v[n], literal)

\* C17: `path has literal` is true exactly when the path resolves to a
\* sequence that contains the literal, false on a missing path and on a value
\* that is no sequence; `path !has literal` is its complement on every value.
C17_Has ==
    (ConditionCalled /\ input.node.type = "has")
        => /\ ~output[1].threw
           /\ output[1].value =
                 ((input.node.operator = "has")
                    <=> ContainsLiteral(resolvePath(input.data, input.node.path),
                                        input.node.value))

\* `!has` on a missing path is true
C17_Witness ==
    /\ ConditionCalled
    /\ input.node.type = "has"
    /\ input.node.operator = "!has"
    /\ resolvePath(input.data, input.node.path) = Undefined
    /\ output[1].value

RECURSIVE Holds(_, _)
Holds(node, scope) ==
    IF node.type # "quantifier" THEN evaluateCondition(node, scope).value
    ELSE LET array == resolvePath(scope, node.array)
         IN /\ array.k = "array"
            /\ Len(array.v) > 0
            /\ IF node.quantifier = "ANY"
               THEN \E n \in 1..Len(array.v) : Holds(node.condition, array.v[n])
               ELSE \A n \in 1..Len(array.v) : Holds(node.condition, array.v[n])

\* C19: ANY and ALL are false on a missing path, a value that is no sequence
\* and an empty sequence; on a non-empty sequence ANY is true iff some element
\* satisfies the condition and ALL iff every element does, the element being
\* the scope of the condition at every nesting level.  (An error raised by
\* the condition on an element is the outcome of the quantifier.)
C19_Quantifiers ==
    (ConditionCalled /\ input.node.type = "quantifier")
        => LET array == resolvePath(input.data, input.node.array)
           IN IF output[1].threw
              THEN /\ array.k = "array"
                   /\ \E n \in 1..Len(array.v) :
                         evaluateCondition(input.node.condition, array.v[n]).threw
              ELSE output[1].value = Holds(input.node, input.data)

\* ALL over an empty sequence is false
C19_Witness ==
    /\ ConditionCalled
    /\ input.node.type = "quantifier"
    /\ input.node.quantifier = "ALL"
    /\ resolvePath(input.data, input.node.array) = Arr(<<>>)
    /\ ~output[1].threw /\ ~output[1].value

\* a nested quantifier is true on elements of the enclosing sequence, and the
\* enclosing value does not serve as scope
C19_WitnessNested ==
    /\ ConditionCalled
    /\ input.node.type = "quantifier"
    /\ input.node.condition.type = "quantifier"
    /\ output[1].value

\* an empty sequence, an empty string or an empty map
IsEmptyContainer(value) ==
    value.k \in {"array", "string", "object"} /\ Len(value.v) = 0

\* C20: `path empty` is true exactly when the path resolves to an empty
\* sequence, string or map, and false on a missing path, on null and on
\* every other value; `path !empty` is its complement in every case.
C20_EmptyCheck ==
    (ConditionCalled /\ input.node.type = "empty_check")
        => /\ ~output[1].threw
           /\ output[1].value =
                 ((input.node.operator = "empty")
                    <=> IsEmptyContainer(resolvePath(input.data, input.node.path)))

\* what holds: the truth table on every value that is no timestamp
C20_EmptyCheckButTimestamps ==
    (/\ ConditionCalled
     /\ input.node.type = "empty_check"
     /\ resolvePath(input.data, input.node.path) # Timestamp)
        => /\ ~output[1].threw
           /\ output[1].value =
                 ((input.node.operator = "empty")
                    <=> IsEmptyContainer(resolvePath(input.data, input.node.path)))

\* the keys of a map, as a set
KeySet(o) == {o.v[n][1] : n \in 1..Len(o.v)}

\* after is target deep-merged with source: a key of the source holds the
\* merge of the two values when both are maps and the source value otherwise,
\* the other keys of the target hold what they held
RECURSIVE IsDeepMerge(_, _, _)
IsDeepMerge(after, target, source) ==
    /\ after.k = "object"
    /\ KeySet(after) = KeySet(target) \cup KeySet(source)
    /\ \A key \in KeySet(source) :
          IF GetProp(source, key).k = "object" /\ GetProp(target, key).k = "object"
          THEN IsDeepMerge(GetProp(after, key), GetProp(target, key),
                           GetProp(source, key))
          ELSE GetProp(after, key) = GetProp(source, key)
    /\ \A key \in KeySet(target) \ KeySet(source) :
          GetProp(after, key) = GetProp(target, key)

\* after is target with the value of every source key replaced wholesale
IsShallowMerge(after, target, source) ==
    /\ after.k = "object"
    /\ KeySet(after) = KeySet(target) \cup KeySet(source)
    /\ \A key \in KeySet(source) : GetProp(after, key) = GetProp(source, key)
    /\ \A key \in KeySet(target) \ KeySet(source) :
          GetProp(after, key) = GetProp(target, key)

\* the map at the path before the call, after it, and the source literal
MergeTarget == resolvePath(Deref(input.heap, Ref(input.data)), input.path)
MergeResult == resolvePath(Deref(output[1].heap, Ref(input.data)), input.path)
MergeSource == Deref(input.heap, input.value)

\* C21: on a target that is a map, a successful MERGE leaves the deep merge
\* of target and source (maps recursed into, everything else replaced, arrays
\* included) and a successful MERGE_OVERWRITE the shallow one; target keys the
\* source does not name are unchanged in both.
C21_DeepAndShallow ==
    (MergeCalled /\ output[1].success /\ MergeTarget.k = "object")
        => IF fn = "executeMerge"
           THEN IsDeepMerge(MergeResult, MergeTarget, MergeSource)
           ELSE IsShallowMerge(MergeResult, MergeTarget, MergeSource)

\* a timestamp somewhere in the value
RECURSIVE HasTimestamp(_)
HasTimestamp(x) ==
    \/ x.k = "date"
    \/ x.k = "object" /\ \E n \in 1..Len(x.v) : HasTimestamp(x.v[n][2])
    \/ x.k = "array" /\ \E n \in 1..Len(x.v) : HasTimestamp(x.v[n])

\* the same, for targets that hold no timestamp
C21_DeepAndShallowButTimestamps ==
    (MergeCalled /\ output[1].success /\ MergeTarget.k = "object"
        /\ ~HasTimestamp(MergeTarget))
        => IF fn = "executeMerge"
           THEN IsDeepMerge(MergeResult, MergeTarget, MergeSource)
           ELSE IsShallowMerge(MergeResult, MergeTarget, MergeSource)

\* MERGE recursed into a map of the target, a key of which the source does
\* not name
C21_Witness ==
    /\ MergeCalled /\ output[1].success /\ fn = "executeMerge"
    /\ MergeTarget.k = "object"
    /\ \E key \in KeySet(MergeSource) :
          /\ GetProp(MergeSource, key).k = "object"
          /\ GetProp(MergeTarget, key).k = "object"
          /\ KeySet(GetProp(MergeTarget, key)) \ KeySet(GetProp(MergeSource, key)) # {}
          /\ GetProp(MergeResult, key) # GetProp(MergeSource, key)

\* what the value model of the action returns for the call
MergeActionResult ==
    LET before == Deref(input.heap, Ref(input.data))
        literal == Deref(input.heap, input.value)
    IN IF fn = "executeMerge" THEN executeMerge(before, input.path, literal)
       ELSE executeMergeOverwrite(before, input.path, literal)

\* the call is refused and has changed nothing
MergeRefused ==
    /\ ~output[1].success
    /\ ~MergeActionResult.success
    /\ ~MergeActionResult.modified
    /\ MergeActionResult.error # NoText
    /\ Deref(output[1].heap, Ref(input.data)) = Deref(input.heap, Ref(input.data))

\* C22: MERGE or MERGE_OVERWRITE on a path that holds a scalar, Null or a
\* sequence returns success = false with an error and modified = false, and
\* leaves the whole value unchanged.
C22_NonMapIsError ==
    (MergeCalled /\ MergeTarget.k \notin {"undefined", "object"}) => MergeRefused

\* the same, a timestamp scalar left out
C22_NonMapIsErrorButTimestamps ==
    (MergeCalled /\ MergeTarget.k \notin {"undefined", "object", "date"})
        => MergeRefused

\* the actions were refused on a number, on Null and on a sequence
C22_Refused ==
    MergeCalled /\ MergeRefused /\ MergeTarget.k \in {"number", "null", "array"}

\* the placeholder names resolveVariable knows
RecognizedNames ==
    {"today", "now", "timestamp", "year", "month", "day", "time", "date:",
     "filename", "basename", "filepath", "folder", "vault", "fm:"}

\* a placeholder of the text with an unknown name, or fm:PATH with a path the
\* front matter does not hold
HasBadPlaceholder(text, frontmatter) ==
    \E n \in 1..Len(text) :
        /\ text[n].type = "TEMPLATE"
        /\ \/ text[n].value.name \notin RecognizedNames
           \/ /\ text[n].value.name = "fm:"
              /\ ~pathExists(frontmatter, text[n].value.arg)

\* the rule's condition let the file through: there is none, or it was
\* evaluated and held
ConditionPassed == ~HasCondition(rule) \/ (ConditionEvaluated /\ result.status # "skipped")

RECURSIVE PairsOf(_, _)
PairsOf(tokens, n) ==
    IF n + 1 > Len(tokens) \/ tokens[n].type # "IDENTIFIER" THEN <<>>
    ELSE <<[field |-> tokens[n].value, value |-> parseValueToken(tokens, n + 1).val]>>
         \o PairsOf(tokens, IF tokens[n + 2].type = "COMMA" THEN n + 3 ELSE n + 2)

\* C24: a SET action written with several comma-separated `field value`
\* pairs sets every listed field to its value and reports success.
C24_SetPairs ==
    (RuleReturned /\ rule.action = ActSetPairs)
        => /\ result.status = "success"
           /\ \A n \in 1..Len(PairsOf(rule.action, 2)) :
                 LET pair == PairsOf(rule.action, 2)[n]
                 IN GetProp(result.newData, pair.field) = pair.value

\* what the code does with the text: the first pair is set, the others are
\* dropped without an error
C24_FirstPairOnly ==
    (RuleReturned /\ rule.action = ActSetPairs)
        => /\ result.status \in {"success", "skipped"}
           /\ actionAST.path = <<"s">>
           /\ GetProp(result.newData, "s") = Str(<<"x">>)
           /\ GetProp(result.newData, "d") = GetProp(result.originalData, "d")

\* parseValue was called on a case variant of the bare word null
NullVariantParsed ==
    fn = "parseValue" /\ output # <<>> /\ toLowerCase(Trim(input)) = <<"n", "u", "l", "l">>

\* C25: every case variant of the bare word null parses to the Null value
\* and never to a string.
C25_NullAnyCase ==
    NullVariantParsed => output[1] = Returned(Null)

\* what the code does: the spellings null and NULL parse to Null, every
\* other variant is returned as the string it is
C25_NullTwoSpellings ==
    NullVariantParsed =>
        output[1] = IF Trim(input) \in {<<"n", "u", "l", "l">>, <<"N", "U", "L", "L">>}
                    THEN Returned(Null)
                    ELSE Returned(Str(Trim(input)))

\* parseAction was called on an action text
ParseCalled == fn = "parseAction" /\ output # <<>>

\* C26: MOVE_WHERE p WHERE c TO i parses to target START when i is 0 and to
\* target END for every other number, positive or negative.
C26_NumericTarget ==
    (ParseCalled /\ input.form = "MOVE_WHERE TO index")
        => /\ ~output[1].threw
           /\ output[1].ast.op = "MOVE_WHERE"
           /\ output[1].ast.target.reference = Undefined
           /\ output[1].ast.target.position =
                 IF input.index = 0 THEN "START" ELSE "END"

\* a positive index was parsed to END
C26_Witness ==
    /\ ParseCalled /\ input.form = "MOVE_WHERE TO index" /\ input.index > 0
    /\ ~output[1].threw
    /\ output[1].ast.target.position = "END"

\* the condition of the action text, parsed on its own
Standalone == parseConditionString(input.condition)

\* C29: a condition that parses on its own parses to the same AST when it is
\* embedded in UPDATE_WHERE p WHERE c SET ... or MOVE_WHERE p WHERE c TO ...
C29_Reassembly ==
    (ParseCalled /\ input.form \in {"UPDATE_WHERE", "MOVE_WHERE TO START"}
        /\ ~Standalone.threw)
        => /\ ~output[1].threw
           /\ output[1].ast.condition = Standalone.ast

\* the right side of the condition is a number, or a string that holds
\* neither a double quote nor a backslash
PlainRightSide ==
    \/ Standalone.ast.right.k = "number"
    \/ \A n \in 1..Len(Standalone.ast.right.v) :
          Standalone.ast.right.v[n] \notin {"\"", "\\"}

\* what the code does: the AST is the same when the strings of the condition
\* hold neither a double quote nor a backslash
C29_ReassemblyOfPlainStrings ==
    (ParseCalled /\ input.form \in {"UPDATE_WHERE", "MOVE_WHERE TO START"}
        /\ ~Standalone.threw /\ PlainRightSide)
        => /\ ~output[1].threw
           /\ output[1].ast.condition = Standalone.ast

\* C27: with the backup option on, a file is written only after a backup
\* holding its content from before the write has been created; when creating
\* the backup fails the file is not written.
C27_BackupPrecedesWrite ==
    [][\A file \in DOMAIN vault :
          (rule.options.backup /\ file \in written' \ written)
              => backups[file] = vault[file]]_vars

\* what the code does: the write comes after the attempt, and a backup that
\* was created holds the content from before the write
C27_BackupAttemptPrecedesWrite ==
    [][\A file \in DOMAIN vault :
          (rule.options.backup /\ file \in written' \ written)
              => /\ pc = "write"
                 /\ backups[file] \in {vault[file], Undefined}]_vars

\* the files counted by the summary
SummaryTotal == summary.success + summary.warnings + summary.errors + summary.skipped

\* C28: whatever fails, processBatch returns exactly one result per input
\* file, in input order, and the four counts of the summary add up to the
\* number of files.
C28_OneResultPerFile ==
    pc = "done"
        => /\ Len(results) = MaxFiles
           /\ \A k \in 1..Len(results) : results[k].file = k
           /\ SummaryTotal = MaxFiles

\* what the code does: the results of executeRule are one per file and in
\* input order, and every failed write adds an error result for a file that
\* has a result already, which the summary counts as well
C28_OneResultPerFileAndFailedWrite ==
    pc = "done"
        => LET ruleResults ==
                   SelectSeq(results, LAMBDA r : r.error # "Failed to write frontmatter")
               failedWrites ==
                   SelectSeq(results, LAMBDA r : r.error = "Failed to write frontmatter")
           IN /\ Len(ruleResults) = MaxFiles
              /\ \A k \in 1..MaxFiles : ruleResults[k].file = k
              /\ \A k \in 1..Len(failedWrites) :
                    /\ failedWrites[k].status = "error"
                    /\ ruleResults[failedWrites[k].file].status \in {"success", "warning"}
              /\ SummaryTotal = MaxFiles + Len(failedWrites)

\* the escape sequences of a string literal, decoded in one pass from left
\* to right: a backslash and the character behind it are read together
RECURSIVE DecodeSinglePass(_)
DecodeSinglePass(str) ==
    IF str = <<>> THEN <<>>
    ELSE IF Len(str) >= 2 /\ str[1] = "\\" /\ str[2] \in {"\"", "'", "\\", "n", "t", "r"}
    THEN <<Unescape(str[2])>> \o DecodeSinglePass(SubSeq(str, 3, Len(str)))
    ELSE <<str[1]>> \o DecodeSinglePass(Tail(str))

\* read in one pass, the text holds an escaped backslash with one of the
\* characters right behind it
RECURSIVE EscapedBackslashBefore(_, _)
EscapedBackslashBefore(str, characters) ==
    IF Len(str) < 2 THEN FALSE
    ELSE IF str[1] = "\\" /\ str[2] = "\\"
    THEN \/ Len(str) >= 3 /\ str[3] \in characters
         \/ EscapedBackslashBefore(SubSeq(str, 3, Len(str)), characters)
    ELSE IF str[1] = "\\" /\ str[2] \in {"\"", "'", "n", "t", "r"}
    THEN EscapedBackslashBefore(SubSeq(str, 3, Len(str)), characters)
    ELSE EscapedBackslashBefore(Tail(str), characters)

\* parseString was called on a quoted literal; what stands between the quotes
StringParsed == fn = "parseString" /\ output # <<>>
LiteralContent == SubSeq(input, 2, Len(input) - 1)

\* C30: the escapes of a string literal are decoded in a single pass from
\* left to right, each escape sequence once: an escaped backslash followed by
\* n, t, r or a quote decodes to a backslash followed by that character.
C30_SinglePass ==
    StringParsed => output[1] = DecodeSinglePass(LiteralContent)

\* what the code does: the result is the single-pass one unless an escaped
\* backslash stands right before n, t or r
C30_SinglePassButEscapedBackslash ==
    (StringParsed /\ ~EscapedBackslashBefore(LiteralContent, {"n", "t", "r"}))
        => output[1] = DecodeSinglePass(LiteralContent)

\* an escaped backslash before n, t or r is decoded a second time
C30_DecodedTwice ==
    (StringParsed /\ EscapedBackslashBefore(LiteralContent, {"n", "t", "r"}))
        => output[1] # DecodeSinglePass(LiteralContent)

====
